---- MODULE Spec2Model ----
(***************************************************************************)
(* Model of the recon worker:                                              *)
(*   app/post_processing.py  the post-processing dispatcher and its eleven *)
(*                           upload/cleanup policies                       *)
(*   app/tool_runner.py      ToolRunner.execute_command and the builders   *)
(*   tasks.py, main.py       the orchestration loops                      *)
(*   argo_run_scan.py        the Argo worker and its Pub/Sub retry loop    *)
(* Texts (tool names, paths, flags, captured output) are TLA+ strings;     *)
(* lower-casing, substring search and path handling are computed on them   *)
(* character by character.                                                 *)
(***************************************************************************)
EXTENDS Integers, Sequences, FiniteSets, TLC

VARIABLES
    fs_files,         \* regular files on the local disk (set of paths)
    fs_dirs,          \* directories on the local disk (set of paths)
    pp_pc,            \* post-processing: "off" | "ready" | "done"
    pp_tool,          \* tool_name handed to the processor
    pp_output_files,  \* output_files handed to the processor
    pp_processor,     \* __name__ of the processor that ran
    pp_uploads,       \* upload_file_to_gcs calls made, in order, with outcome
    pp_deleted,       \* delete_local_directory(output_dir) was called
    ex_pc,            \* execute_command: "off" | "ready" | "done"
    ex_tool,          \* tool_name handed to execute_command
    ex_command,       \* command handed to execute_command
    ex_env,           \* what the process and the disk did during the call
    ex_outcome,       \* "none" | "returned" | "raised"
    ex_result,        \* the ToolOutput returned (<<>> when none)
    ex_writes,        \* files execute_command wrote, in order, with their data
    bd_pc,            \* a builder call: "off" | "ready" | "done"
    bd_tool,          \* tool_name as requested (the registry key is its lower case)
    bd_parameters,    \* the parameter list handed to the builder
    bd_env,           \* what the disk did during the call
    bd_result,        \* what the builder gave: a vector or an exception
    sc_pc,            \* a scan: "off" | "loop" | "returned" | "raised"
    sc_entry,         \* "tasks" (execute_scan_logic) | "flask" (execute_scan)
    sc_tools,         \* scan_request.tools
    sc_i,             \* index of the tool the loop is at
    sc_results,       \* results, each entry with the index of the tool it is for
    sc_log,           \* the calls the loop made, in order
    sc_response,      \* the ScanResponse built at the end (<<>> before)
    ar_pc,            \* the Argo worker: "off" | the step main() or publish_to_pubsub is at
    ar_entry,         \* "main" (main) | "publish" (publish_to_pubsub called by itself)
    ar_max_retries,   \* max_retries of publish_to_pubsub
    ar_attempt,       \* attempt, the loop variable of publish_to_pubsub
    ar_log,           \* the calls the worker made, in order, with their outcome
    ar_code           \* the exit code of the process (-1 while it runs)

pp_vars == <<pp_pc, pp_tool, pp_output_files, pp_processor, pp_uploads, pp_deleted>>
ex_vars == <<ex_pc, ex_tool, ex_command, ex_env, ex_outcome, ex_result, ex_writes>>
fs_vars == <<fs_files, fs_dirs>>
bd_vars == <<bd_pc, bd_tool, bd_parameters, bd_env, bd_result>>
sc_vars == <<sc_pc, sc_entry, sc_tools, sc_i, sc_results, sc_log, sc_response>>
ar_vars == <<ar_pc, ar_entry, ar_max_retries, ar_attempt, ar_log, ar_code>>
vars == <<fs_vars, pp_vars, ex_vars, bd_vars, sc_vars, ar_vars>>

-----------------------------------------------------------------------------
(* Bounds *)

\* longest output_files list handed to a post-processor
MaxArtifacts == 2

\* longest parameter list a builder is called with
MaxParams == 2

\* most tools one scan request asks for
MaxTools == 2

\* largest max_retries publish_to_pubsub is called with
MaxRetries == 3

-----------------------------------------------------------------------------
(* Python str / os.path primitives *)

UpperLetters == "ABCDEFGHIJKLMNOPQRSTUVWXYZ"
LowerLetters == "abcdefghijklmnopqrstuvwxyz"

CharAt(s, i) == SubSeq(s, i, i)

\* str.lower() on one character
LowerChar(c) ==
    IF \E i \in 1..Len(UpperLetters) : CharAt(UpperLetters, i) = c
    THEN CharAt(LowerLetters, CHOOSE i \in 1..Len(UpperLetters) : CharAt(UpperLetters, i) = c)
    ELSE c

RECURSIVE LowerFrom(_, _)
LowerFrom(s, i) ==
    IF i > Len(s) THEN "" ELSE LowerChar(CharAt(s, i)) \o LowerFrom(s, i + 1)

\* str.lower()
lower(s) == LowerFrom(s, 1)

\* Python's  m in s  on strings
contains(s, m) ==
    \E i \in 1..(Len(s) - Len(m) + 1) : SubSeq(s, i, i + Len(m) - 1) = m

\* index of the last "/" of p, 0 when there is none
LastSlash(p) ==
    IF \E i \in 1..Len(p) : CharAt(p, i) = "/"
    THEN CHOOSE i \in 1..Len(p) :
            /\ CharAt(p, i) = "/"
            /\ \A j \in (i + 1)..Len(p) : CharAt(p, j) # "/"
    ELSE 0

\* os.path.basename
basename(p) == SubSeq(p, LastSlash(p) + 1, Len(p))

\* os.path.dirname (paths of the model carry no trailing or doubled slash)
dirname(p) ==
    IF LastSlash(p) = 0 THEN ""
    ELSE IF LastSlash(p) = 1 THEN "/"
    ELSE SubSeq(p, 1, LastSlash(p) - 1)

\* os.path.join of two components
path_join(a, b) ==
    IF Len(b) > 0 /\ CharAt(b, 1) = "/" THEN b
    ELSE IF a = "" \/ CharAt(a, Len(a)) = "/" THEN a \o b
    ELSE a \o "/" \o b

\* os.path.exists
exists(p) == p \in fs_files \/ p \in fs_dirs

\* Python's all() on a list of booleans
all(bs) == \A i \in 1..Len(bs) : bs[i]

-----------------------------------------------------------------------------
(* Post-processing dispatcher: app/post_processing.py *)

\* keys of _post_processor_registry, as the decorators register them
RegisteredProcessors ==
    {"masscan", "amass", "subfinder", "theharvester", "recon-ng", "gobuster",
     "dirsearch", "whatweb", "nmap", "dnsenum"}

\* get_post_processor: the processor's name, the default one when none is registered
get_post_processor(tool_name) ==
    IF lower(tool_name) \in RegisteredProcessors
    THEN lower(tool_name)
    ELSE "default"

\* the object-storage path every processor formats
gcs_path(scan_id, tool_name, channel, filename) ==
    "data/" \o scan_id \o "/recon/" \o tool_name \o "/" \o channel \o "/" \o filename

\* one upload_file_to_gcs(src, dst) call and the boolean it returned
Upload(src, dst, ok) == [src |-> src, dst |-> dst, ok |-> ok]

\* the booleans a list of uploads returned
Outcomes(ups) == [i \in 1..Len(ups) |-> ups[i].ok]

\* A processor's run: the uploads it made and whether it called
\* delete_local_directory.  oc[k] is what the k-th upload call returns.
RECURSIVE default_loop(_, _, _, _, _, _)
default_loop(scan_id, tool_name, output_files, oc, i, acc) ==
    IF i > Len(output_files) THEN acc
    ELSE LET file_path == output_files[i] IN
         IF exists(file_path)
         THEN LET ok == oc[Len(acc.uploads) + 1]
                  up == Upload(file_path,
                               gcs_path(scan_id, tool_name, "review", basename(file_path)),
                               ok)
              IN default_loop(scan_id, tool_name, output_files, oc, i + 1,
                     [uploads |-> Append(acc.uploads, up),
                      all_uploads_succeeded |-> acc.all_uploads_succeeded /\ ok])
         ELSE default_loop(scan_id, tool_name, output_files, oc, i + 1, acc)

\* the loop leaves at the first failed upload
default_post_processor_Mutant(scan_id, tool_name, output_dir, output_files, oc) ==
    LET r == default_loop(scan_id, tool_name, output_files, oc, 1,
                          [uploads |-> <<>>, all_uploads_succeeded |-> TRUE])
        failed == {i \in 1..Len(r.uploads) : ~r.uploads[i].ok}
        k == IF failed = {} THEN Len(r.uploads)
             ELSE CHOOSE i \in failed : \A j \in failed : i <= j
    IN [uploads |-> SubSeq(r.uploads, 1, k), deleted |-> r.all_uploads_succeeded]

default_post_processor(scan_id, tool_name, output_dir, output_files, oc) ==
    LET r == default_loop(scan_id, tool_name, output_files, oc, 1,
                          [uploads |-> <<>>, all_uploads_succeeded |-> TRUE])
    IN [uploads |-> r.uploads, deleted |-> r.all_uploads_succeeded]

\* the cleanup gate  all(uploads_succeeded)  of masscan, amass and whatweb
gate_all_Mutant(uploads_succeeded) ==
    \E i \in 1..Len(uploads_succeeded) : uploads_succeeded[i]

gate_all(uploads_succeeded) == all(uploads_succeeded)

\* the cleanup gate  all(uploads_succeeded) and uploads_succeeded  of
\* theHarvester, recon-ng, gobuster, nmap and dnsenum
gate_all_nonempty_Mutant(uploads_succeeded) == all(uploads_succeeded)

gate_all_nonempty(uploads_succeeded) ==
    all(uploads_succeeded) /\ uploads_succeeded # <<>>

post_process_masscan(scan_id, tool_name, output_dir, output_files, oc) ==
    LET json_file == path_join(output_dir, "masscan_scan.json")
        found == exists(json_file)
        ups == IF found
               THEN << Upload(json_file, gcs_path(scan_id, tool_name, "llm", "masscan_scan.json"), oc[1]),
                       Upload(json_file, gcs_path(scan_id, tool_name, "review", "masscan_scan.json"), oc[2]) >>
               ELSE <<>>
        uploads_succeeded == IF found THEN Outcomes(ups) ELSE <<FALSE>>
    IN [uploads |-> ups, deleted |-> gate_all(uploads_succeeded)]

post_process_amass(scan_id, tool_name, output_dir, output_files, oc) ==
    LET txt_file == path_join(output_dir, "amass_scan.txt")
        found == exists(txt_file)
        ups == IF found
               THEN << Upload(txt_file, gcs_path(scan_id, tool_name, "llm", "amass_scan.txt"), oc[1]),
                       Upload(txt_file, gcs_path(scan_id, tool_name, "review", "amass_scan.txt"), oc[2]) >>
               ELSE <<>>
        uploads_succeeded == IF found THEN Outcomes(ups) ELSE <<FALSE>>
    IN [uploads |-> ups, deleted |-> gate_all(uploads_succeeded)]

post_process_subfinder(scan_id, tool_name, output_dir, output_files, oc) ==
    LET json_file == path_join(output_dir, "subfinder_scan.json")
        found == exists(json_file)
        ups == IF found
               THEN << Upload(json_file, gcs_path(scan_id, tool_name, "review", "subfinder_scan.json"), oc[1]) >>
               ELSE <<>>
        upload_succeeded == IF found THEN ups[1].ok ELSE FALSE
    IN [uploads |-> ups, deleted |-> upload_succeeded]

post_process_theharvester(scan_id, tool_name, output_dir, output_files, oc) ==
    LET json_file == path_join(output_dir, "theharvester_scan.json")
        stdout_file == path_join(output_dir, "output.stdout")
        u1 == IF exists(json_file)
              THEN << Upload(json_file, gcs_path(scan_id, tool_name, "llm", "theharvester_scan.json"), oc[1]),
                      Upload(json_file, gcs_path(scan_id, tool_name, "review", "theharvester_scan.json"), oc[2]) >>
              ELSE <<>>
        u2 == IF exists(stdout_file)
              THEN Append(u1, Upload(stdout_file, gcs_path(scan_id, tool_name, "review", "output.stdout"), oc[Len(u1) + 1]))
              ELSE u1
    IN [uploads |-> u2, deleted |-> gate_all_nonempty(Outcomes(u2))]

post_process_recon_ng(scan_id, tool_name, output_dir, output_files, oc) ==
    LET report_file == path_join(output_dir, "report.html")
        stdout_file == path_join(output_dir, "output.stdout")
        u1 == IF exists(report_file)
              THEN << Upload(report_file, gcs_path(scan_id, tool_name, "review", "report.html"), oc[1]) >>
              ELSE <<>>
        u2 == IF exists(stdout_file)
              THEN Append(u1, Upload(stdout_file, gcs_path(scan_id, tool_name, "review", "output.stdout"), oc[Len(u1) + 1]))
              ELSE u1
    IN [uploads |-> u2, deleted |-> gate_all_nonempty(Outcomes(u2))]

post_process_gobuster(scan_id, tool_name, output_dir, output_files, oc) ==
    LET scan_file == path_join(output_dir, "gobuster_scan.txt")
        stdout_file == path_join(output_dir, "output.stdout")
        u1 == IF exists(scan_file)
              THEN << Upload(scan_file, gcs_path(scan_id, tool_name, "review", "gobuster_scan.txt"), oc[1]) >>
              ELSE <<>>
        u2 == IF exists(stdout_file)
              THEN u1 \o << Upload(stdout_file, gcs_path(scan_id, tool_name, "review", "output.stdout"), oc[Len(u1) + 1]),
                            Upload(stdout_file, gcs_path(scan_id, tool_name, "llm", "gobuster_output.txt"), oc[Len(u1) + 2]) >>
              ELSE u1
    IN [uploads |-> u2, deleted |-> gate_all_nonempty(Outcomes(u2))]

post_process_dirsearch(scan_id, tool_name, output_dir, output_files, oc) ==
    LET scan_file == path_join(output_dir, "dirsearch_scan.txt")
        found == exists(scan_file)
        ups == IF found
               THEN << Upload(scan_file, gcs_path(scan_id, tool_name, "review", "dirsearch_scan.txt"), oc[1]) >>
               ELSE <<>>
        upload_succeeded == IF found THEN ups[1].ok ELSE FALSE
    IN [uploads |-> ups, deleted |-> upload_succeeded]

post_process_whatweb(scan_id, tool_name, output_dir, output_files, oc) ==
    LET scan_file == path_join(output_dir, "whatweb_scan.txt")
        found == exists(scan_file)
        ups == IF found
               THEN << Upload(scan_file, gcs_path(scan_id, tool_name, "llm", "whatweb_scan.txt"), oc[1]),
                       Upload(scan_file, gcs_path(scan_id, tool_name, "review", "whatweb_scan.txt"), oc[2]) >>
               ELSE <<>>
        uploads_succeeded == IF found THEN Outcomes(ups) ELSE <<FALSE>>
    IN [uploads |-> ups, deleted |-> gate_all(uploads_succeeded)]

post_process_nmap(scan_id, tool_name, output_dir, output_files, oc) ==
    LET stdout_file == path_join(output_dir, "output.stdout")
        xml_file == path_join(output_dir, "nmap_scan.xml")
        u1 == IF exists(stdout_file)
              THEN << Upload(stdout_file, gcs_path(scan_id, tool_name, "llm", "nmap_output.txt"), oc[1]),
                      Upload(stdout_file, gcs_path(scan_id, tool_name, "review", "output.stdout"), oc[2]) >>
              ELSE <<>>
        u2 == IF exists(xml_file)
              THEN Append(u1, Upload(xml_file, gcs_path(scan_id, tool_name, "review", "nmap_scan.xml"), oc[Len(u1) + 1]))
              ELSE u1
    IN [uploads |-> u2, deleted |-> gate_all_nonempty(Outcomes(u2))]

post_process_dnsenum(scan_id, tool_name, output_dir, output_files, oc) ==
    LET stdout_file == path_join(output_dir, "output.stdout")
        stderr_file == path_join(output_dir, "output.stderr")
        xml_file == path_join(output_dir, "dnsenum_scan.xml")
        u1 == IF exists(stdout_file)
              THEN << Upload(stdout_file, gcs_path(scan_id, tool_name, "review", "output.stdout"), oc[1]) >>
              ELSE <<>>
        u2 == IF exists(stderr_file)
              THEN Append(u1, Upload(stderr_file, gcs_path(scan_id, tool_name, "review", "output.stderr"), oc[Len(u1) + 1]))
              ELSE u1
        u3 == IF exists(xml_file)
              THEN Append(u2, Upload(xml_file, gcs_path(scan_id, tool_name, "review", "dnsenum_scan.xml"), oc[Len(u2) + 1]))
              ELSE u2
    IN [uploads |-> u3, deleted |-> gate_all_nonempty(Outcomes(u3))]

-----------------------------------------------------------------------------
(* Calls of the post-processors *)

ScanId == "s1"

\* the tool's output directory, /app/outputs/<scan_id>/<tool_name>
OutputDir(scan_id, tool_name) == "/app/outputs/" \o scan_id \o "/" \o tool_name

\* tool names a processor is asked for; "nikto" has no registered processor
PostTools ==
    {"nmap", "masscan", "amass", "subfinder", "theHarvester", "recon-ng",
     "gobuster", "dirsearch", "whatweb", "dnsenum", "nikto"}

\* the result file a tool leaves beside the two capture files
ResultFile(tool_name) ==
    CASE lower(tool_name) = "nmap" -> "nmap_scan.xml"
      [] lower(tool_name) = "masscan" -> "masscan_scan.json"
      [] lower(tool_name) = "amass" -> "amass_scan.txt"
      [] lower(tool_name) = "subfinder" -> "subfinder_scan.json"
      [] lower(tool_name) = "theharvester" -> "theharvester_scan.json"
      [] lower(tool_name) = "recon-ng" -> "report.html"
      [] lower(tool_name) = "gobuster" -> "gobuster_scan.txt"
      [] lower(tool_name) = "dirsearch" -> "dirsearch_scan.txt"
      [] lower(tool_name) = "whatweb" -> "whatweb_scan.txt"
      [] lower(tool_name) = "dnsenum" -> "dnsenum_scan.xml"
      [] OTHER -> lower(tool_name) \o "_scan.txt"

\* the paths that may exist in a tool's output directory
DirPaths(tool_name) ==
    {path_join(OutputDir(ScanId, tool_name), n) :
        n \in {"output.stdout", "output.stderr", ResultFile(tool_name)}}

\* the output_files lists a processor may be handed
ArtifactLists(tool_name) ==
    UNION {[1..n -> DirPaths(tool_name)] : n \in 0..MaxArtifacts}

\* what the successive upload_file_to_gcs calls of one run return
UploadOutcomes ==
    [1..(IF MaxArtifacts > 3 THEN MaxArtifacts ELSE 3) -> BOOLEAN]

\* p is d or lies below it
Under(p, d) ==
    \/ p = d
    \/ Len(p) > Len(d) /\ SubSeq(p, 1, Len(d) + 1) = d \o "/"

\* delete_local_directory(output_dir): the directory and all below it are gone
delete_local_directory(output_dir) ==
    /\ fs_files' = {p \in fs_files : ~Under(p, output_dir)}
    /\ fs_dirs' = {p \in fs_dirs : ~Under(p, output_dir)}

\* get_post_processor resolves the processor called name
Resolves(name) ==
    /\ pp_pc = "ready"
    /\ get_post_processor(pp_tool) = name

\* the processor called name runs to its end; r is its run
RunProcessor(name, r) ==
    /\ pp_pc' = "done"
    /\ pp_processor' = name
    /\ pp_uploads' = r.uploads
    /\ pp_deleted' = r.deleted
    /\ IF r.deleted
       THEN delete_local_directory(OutputDir(ScanId, pp_tool))
       ELSE UNCHANGED fs_vars
    /\ UNCHANGED <<pp_tool, pp_output_files>>
    /\ UNCHANGED <<ex_vars, bd_vars, sc_vars, ar_vars>>

PostProcessDefault ==
    /\ Resolves("default")
    /\ \E oc \in UploadOutcomes :
          RunProcessor("default",
              default_post_processor(ScanId, pp_tool, OutputDir(ScanId, pp_tool), pp_output_files, oc))

PostProcessMasscan ==
    /\ Resolves("masscan")
    /\ \E oc \in UploadOutcomes :
          RunProcessor("masscan",
              post_process_masscan(ScanId, pp_tool, OutputDir(ScanId, pp_tool), pp_output_files, oc))

PostProcessAmass ==
    /\ Resolves("amass")
    /\ \E oc \in UploadOutcomes :
          RunProcessor("amass",
              post_process_amass(ScanId, pp_tool, OutputDir(ScanId, pp_tool), pp_output_files, oc))

PostProcessSubfinder ==
    /\ Resolves("subfinder")
    /\ \E oc \in UploadOutcomes :
          RunProcessor("subfinder",
              post_process_subfinder(ScanId, pp_tool, OutputDir(ScanId, pp_tool), pp_output_files, oc))

PostProcessTheHarvester ==
    /\ Resolves("theharvester")
    /\ \E oc \in UploadOutcomes :
          RunProcessor("theharvester",
              post_process_theharvester(ScanId, pp_tool, OutputDir(ScanId, pp_tool), pp_output_files, oc))

PostProcessReconNg ==
    /\ Resolves("recon-ng")
    /\ \E oc \in UploadOutcomes :
          RunProcessor("recon-ng",
              post_process_recon_ng(ScanId, pp_tool, OutputDir(ScanId, pp_tool), pp_output_files, oc))

PostProcessGobuster ==
    /\ Resolves("gobuster")
    /\ \E oc \in UploadOutcomes :
          RunProcessor("gobuster",
              post_process_gobuster(ScanId, pp_tool, OutputDir(ScanId, pp_tool), pp_output_files, oc))

PostProcessDirsearch ==
    /\ Resolves("dirsearch")
    /\ \E oc \in UploadOutcomes :
          RunProcessor("dirsearch",
              post_process_dirsearch(ScanId, pp_tool, OutputDir(ScanId, pp_tool), pp_output_files, oc))

PostProcessWhatweb ==
    /\ Resolves("whatweb")
    /\ \E oc \in UploadOutcomes :
          RunProcessor("whatweb",
              post_process_whatweb(ScanId, pp_tool, OutputDir(ScanId, pp_tool), pp_output_files, oc))

PostProcessNmap ==
    /\ Resolves("nmap")
    /\ \E oc \in UploadOutcomes :
          RunProcessor("nmap",
              post_process_nmap(ScanId, pp_tool, OutputDir(ScanId, pp_tool), pp_output_files, oc))

PostProcessDnsenum ==
    /\ Resolves("dnsenum")
    /\ \E oc \in UploadOutcomes :
          RunProcessor("dnsenum",
              post_process_dnsenum(ScanId, pp_tool, OutputDir(ScanId, pp_tool), pp_output_files, oc))

\* execute_command is not part of the run
ExecOff ==
    /\ ex_pc = "off"
    /\ ex_tool = ""
    /\ ex_command = <<>>
    /\ ex_env = <<>>
    /\ ex_outcome = "none"
    /\ ex_result = <<>>
    /\ ex_writes = <<>>

\* no builder is part of the run
BuildOff ==
    /\ bd_pc = "off"
    /\ bd_tool = ""
    /\ bd_parameters = <<>>
    /\ bd_env = <<>>
    /\ bd_result = <<>>

\* no scan is part of the run
ScanOff ==
    /\ sc_pc = "off"
    /\ sc_entry = ""
    /\ sc_tools = <<>>
    /\ sc_i = 0
    /\ sc_results = <<>>
    /\ sc_log = <<>>
    /\ sc_response = <<>>

\* the Argo worker is not part of the run
ArgoOff ==
    /\ ar_pc = "off"
    /\ ar_entry = ""
    /\ ar_max_retries = 0
    /\ ar_attempt = 0
    /\ ar_log = <<>>
    /\ ar_code = -1

\* a processor is about to be called on a tool's output directory
InitPost ==
    /\ ExecOff
    /\ BuildOff
    /\ ScanOff
    /\ ArgoOff
    /\ pp_pc = "ready"
    /\ pp_tool \in PostTools
    /\ fs_dirs = {OutputDir(ScanId, pp_tool)}
    /\ fs_files \in SUBSET DirPaths(pp_tool)
    /\ pp_output_files \in ArtifactLists(pp_tool)
    /\ pp_processor = ""
    /\ pp_uploads = <<>>
    /\ pp_deleted = FALSE

NextPost ==
    \/ PostProcessDefault
    \/ PostProcessMasscan
    \/ PostProcessAmass
    \/ PostProcessSubfinder
    \/ PostProcessTheHarvester
    \/ PostProcessReconNg
    \/ PostProcessGobuster
    \/ PostProcessDirsearch
    \/ PostProcessWhatweb
    \/ PostProcessNmap
    \/ PostProcessDnsenum

SpecPost == InitPost /\ [][NextPost]_vars

-----------------------------------------------------------------------------
(* Execution engine: ToolRunner.execute_command, app/tool_runner.py *)

\* the value None where a string is expected (a token, a flag, a value)
None == "None:NoneType"

\* the booleans True and False where a string is expected
PyTrue == "True:bool"
PyFalse == "False:bool"

is_str(tok) == tok \notin {None, PyTrue, PyFalse}

\* default of the timeout parameter, in seconds
DefaultTimeout == 3600

\* characters of stdout and stderr the ToolOutput carries
TailLen == 2000

Digits == "0123456789"

\* str() of a natural number
RECURSIVE str_nat(_)
str_nat(n) ==
    IF n < 10 THEN CharAt(Digits, n + 1)
    ELSE str_nat(n \div 10) \o CharAt(Digits, (n % 10) + 1)

\* s[-2000:]
tail(s) == IF Len(s) > TailLen THEN SubSeq(s, Len(s) - TailLen + 1, Len(s)) ELSE s

\* the directory above the app package, where outputs/ lives
ProjectRoot == "/app"

\* os.makedirs(p, exist_ok=True): p and the directories above it
RECURSIVE makedirs(_)
makedirs(p) == IF p = "" \/ p = "/" THEN {} ELSE {p} \cup makedirs(dirname(p))

\* shlex.join(command) raises TypeError on a token that is not a string
shlex_join_ok(command) == \A i \in 1..Len(command) : is_str(command[i])

output_flags == {"-o", "-oA", "-oG", "-oJ", "-oN", "-oX", "-f", "--log-brief"}

\* the token after the first write-to-file flag that has a token after it
expected_output_file(command) ==
    LET hits == {i \in 1..Len(command) : command[i] \in output_flags /\ i < Len(command)}
    IN IF hits = {} THEN None
       ELSE command[(CHOOSE i \in hits : \A j \in hits : i <= j) + 1]

\* only "error" is looked for
strict_family_success_Mutant(returncode, stderr) ==
    /\ returncode = 0
    /\ ~contains(lower(stderr), "error")

\* the rule of recon-ng, dirsearch and theHarvester
strict_family_success(returncode, stderr) ==
    /\ returncode = 0
    /\ ~contains(lower(stderr), "error")
    /\ ~contains(lower(stderr), "traceback")

benign_errors == {"query failed", "noerror", "lame server"}

\* dnsenum tolerates a non-zero exit on benign lookup errors
dnsenum_success_Mutant(returncode, stderr_lower) ==
    LET has_benign_error == \E err \in benign_errors : contains(stderr_lower, err)
    IN returncode = 0 \/ has_benign_error

dnsenum_success(returncode, stderr_lower) ==
    LET has_benign_error == \E err \in benign_errors : contains(stderr_lower, err)
    IN IF ~contains(stderr_lower, "can't locate")
       THEN IF returncode = 0 THEN TRUE
            ELSE IF returncode # 0 /\ has_benign_error THEN TRUE
            ELSE FALSE
       ELSE FALSE

error_markers ==
    {"invalid module", "invalid option", "invalid command", "error", "traceback",
     "no such file", "not found", "[!]", "fail", "module not found"}

\* only stderr is searched for markers
default_family_success_Mutant(returncode, stdout_lower, stderr_lower) ==
    LET found_error == \E marker \in error_markers : contains(stderr_lower, marker)
    IN (returncode = 0) /\ ~found_error

default_family_success(returncode, stdout_lower, stderr_lower) ==
    LET found_error ==
            \/ \E marker \in error_markers : contains(stdout_lower, marker)
            \/ \E marker \in error_markers : contains(stderr_lower, marker)
    IN (returncode = 0) /\ ~found_error

\* the success classification of a completed run
classify_success(tool_name, returncode, stdout, stderr) ==
    LET tool_name_lower == lower(tool_name)
    IN IF tool_name_lower \in {"recon-ng", "dirsearch", "theharvester"}
       THEN strict_family_success(returncode, stderr)
       ELSE IF tool_name_lower = "dnsenum"
       THEN dnsenum_success(returncode, lower(stderr))
       ELSE default_family_success(returncode, lower(stdout), lower(stderr))

ToolOutput(tool_name, command, return_code, stdout, stderr, output_file_paths, success) ==
    [tool_name |-> tool_name, command |-> command, return_code |-> return_code,
     stdout |-> stdout, stderr |-> stderr, output_file_paths |-> output_file_paths,
     success |-> success]

\* how a call of execute_command ends, and the disk it leaves
Raised(files, dirs, writes) ==
    [outcome |-> "raised", result |-> <<>>, files |-> files, dirs |-> dirs, writes |-> writes]

\* return ToolOutput(...): the model validates command as List[str] and
\* raises a ValidationError on a token that is not a string
Return(result, files, dirs, writes) ==
    IF \A i \in 1..Len(result.command) : is_str(result.command[i])
    THEN [outcome |-> "returned", result |-> result, files |-> files, dirs |-> dirs, writes |-> writes]
    ELSE Raised(files, dirs, writes)

\* except Exception as e
exception_return(command, tool_name, e, files, dirs, writes) ==
    LET error_msg == "Failed to execute command: " \o e
    IN Return(ToolOutput(tool_name, command, -1, "", error_msg, <<>>, FALSE),
              files, dirs, writes)

\* except subprocess.TimeoutExpired
timeout_return(command, tool_name, stderr_file, write_fails, files, dirs) ==
    LET error_msg == "Command timed out after " \o str_nat(DefaultTimeout) \o " seconds."
    IN IF write_fails
       THEN Raised(files, dirs, <<>>)
       ELSE Return(ToolOutput(tool_name, command, -1, "", error_msg, <<stderr_file>>, FALSE),
                   files \cup {stderr_file}, dirs,
                   <<[path |-> stderr_file, data |-> error_msg]>>)

\* every order os.listdir may give the entries of S
Listings(S) ==
    {q \in [1..Cardinality(S) -> S] : \A x \in S : \E i \in 1..Cardinality(S) : q[i] = x}

\* The ways a call can end.  env is what happened around it:
\*   fault   the file operation that failed: "none" | "mkdir" | "stdout" |
\*           "stderr" | "fallback" | "handler"
\*   spawn   "none" (never reached) | "error" | "timeout" | "completed"
\*   rc, stdout, stderr   what the process gave
\*   tool_files           the files the tool itself wrote while it ran
\* files0 and dirs0 are the disk the call starts on.
execute_command_on(files0, dirs0, command, scan_id, tool_name, env) ==
    LET output_dir == path_join(path_join(path_join(ProjectRoot, "outputs"), scan_id), tool_name)
        base_output_path == path_join(output_dir, "output")
        stdout_file == base_output_path \o ".stdout"
        stderr_file == base_output_path \o ".stderr"
        dirs1 == dirs0 \cup makedirs(output_dir)
        files1 == files0 \cup env.tool_files
    IN
    IF env.fault = "mkdir" THEN {Raised(files0, dirs0, <<>>)}
    ELSE IF ~shlex_join_ok(command)
    THEN {exception_return(command, tool_name, "expected string or bytes-like object",
                           files0, dirs1, <<>>)}
    ELSE IF env.spawn = "error"
    THEN {exception_return(command, tool_name, "[Errno 2] No such file or directory",
                           files0, dirs1, <<>>)}
    ELSE IF env.spawn = "timeout"
    THEN {timeout_return(command, tool_name, stderr_file, env.fault = "handler", files1, dirs1)}
    ELSE IF env.fault = "stdout"
    THEN {exception_return(command, tool_name, "[Errno 28] No space left on device",
                           files1, dirs1, <<>>)}
    ELSE
    LET files2 == files1 \cup {stdout_file}
        w2 == <<[path |-> stdout_file, data |-> env.stdout]>>
    IN
    IF env.fault = "stderr"
    THEN {exception_return(command, tool_name, "[Errno 28] No space left on device",
                           files2, dirs1, w2)}
    ELSE
    LET files3 == files2 \cup {stderr_file}
        w3 == Append(w2, [path |-> stderr_file, data |-> env.stderr])
        expected == expected_output_file(command)
        fallback == /\ expected # None /\ expected # ""
                    /\ expected \notin files3 /\ expected \notin dirs1
                    /\ env.stdout # ""
        \* os.makedirs("") raises, as does a failing open(): both are logged
        written == fallback /\ dirname(expected) # "" /\ env.fault # "fallback"
        files4 == IF written THEN files3 \cup {expected} ELSE files3
        dirs4 == IF written THEN dirs1 \cup makedirs(dirname(expected)) ELSE dirs1
        w4 == IF written THEN Append(w3, [path |-> expected, data |-> env.stdout]) ELSE w3
        success == classify_success(tool_name, env.rc, env.stdout, env.stderr)
        others == {f \in files4 : /\ dirname(f) = output_dir
                                  /\ basename(f) \notin {"output.stdout", "output.stderr"}}
    IN {Return(ToolOutput(tool_name, command, env.rc, tail(env.stdout), tail(env.stderr),
                          <<stdout_file, stderr_file>> \o listing, success),
               files4, dirs4, w4) : listing \in Listings(others)}

\* execute_command on the disk as it is
execute_command(command, scan_id, tool_name, env) ==
    execute_command_on(fs_files, fs_dirs, command, scan_id, tool_name, env)

-----------------------------------------------------------------------------
(* dnsenum's builder, whose vectors execute_command is given *)

\* Python's  not x
falsy(x) == x = None \/ x = "" \/ x = PyFalse

RECURSIVE dnsenum_params(_, _, _)
dnsenum_params(parameters, i, cmd) ==
    IF i > Len(parameters) THEN cmd
    ELSE LET flag == parameters[i].flag
             value == parameters[i].value
         IN IF falsy(flag) THEN dnsenum_params(parameters, i + 1, cmd)
            ELSE IF flag = "--file" /\ value \in {PyTrue, "true", "True"}
            THEN dnsenum_params(parameters, i + 1,
                    cmd \o <<"-f", path_join("/app/wordlists", "subdomains-top1million-5000.txt")>>)
            ELSE IF flag \notin {"-o", "--file", "<domain>"}
            THEN IF value # None /\ value \notin {PyTrue, "true", "True"}
                 THEN dnsenum_params(parameters, i + 1, cmd \o <<flag, value>>)
                 ELSE IF value \in {PyTrue, "true", "True"}
                 THEN dnsenum_params(parameters, i + 1, Append(cmd, flag))
                 ELSE dnsenum_params(parameters, i + 1, cmd)
            ELSE dnsenum_params(parameters, i + 1, cmd)

build_dnsenum_command(target, parameters, scan_id, tool_name) ==
    LET output_dir == "/app/outputs/" \o scan_id \o "/" \o tool_name
        output_file == path_join(output_dir, "dnsenum_scan.xml")
    IN Append(dnsenum_params(parameters, 1, <<"dnsenum">>) \o <<"-o", output_file>>, target)

-----------------------------------------------------------------------------
(* The command builders of app/tool_runner.py.  A parameter is a record     *)
(* [flag, value, requiresValue]; a builder gives Built(cmd) or Raises(..).  *)

Built(cmd) == [raised |-> FALSE, exc |-> "", msg |-> "", cmd |-> cmd]

Raises(exc, msg) == [raised |-> TRUE, exc |-> exc, msg |-> msg, cmd |-> <<>>]

\* str(value)
py_str(value) ==
    CASE value = None -> "None"
      [] value = PyTrue -> "True"
      [] value = PyFalse -> "False"
      [] OTHER -> value

\* value in (True, "true")
is_true(value) == value \in {PyTrue, "true"}

\* url.startswith(('http://', 'https://'))
startswith_http(url) ==
    \/ Len(url) >= 7 /\ SubSeq(url, 1, 7) = "http://"
    \/ Len(url) >= 8 /\ SubSeq(url, 1, 8) = "https://"

\* x in cmd
in_cmd(x, cmd) == \E i \in 1..Len(cmd) : cmd[i] = x

\* if value is not None and value not in (True, "true"): [flag, str(value)]
\* elif value in (True, "true"): [flag]
emit_plain(cmd, flag, value) ==
    IF value # None /\ ~is_true(value) THEN cmd \o <<flag, py_str(value)>>
    ELSE IF is_true(value) THEN Append(cmd, flag)
    ELSE cmd

\* if value is not None and str(value).lower() not in ('true', '1', ''): [flag, str(value)]
\* elif value in (True, "true"): [flag]
emit_checked(cmd, flag, value) ==
    IF value # None /\ lower(py_str(value)) \notin {"true", "1", ""}
    THEN cmd \o <<flag, py_str(value)>>
    ELSE IF is_true(value) THEN Append(cmd, flag)
    ELSE cmd

RECURSIVE nmap_params(_, _, _, _)
nmap_params(parameters, i, output_base, acc) ==
    IF i > Len(parameters) THEN acc
    ELSE LET flag == parameters[i].flag
             value == parameters[i].value
             requires_value == parameters[i].requiresValue
         IN IF falsy(flag) \/ flag = "<target>"
            THEN nmap_params(parameters, i + 1, output_base, acc)
            ELSE IF flag \in {"-oX", "-oN", "-oA"}
            THEN nmap_params(parameters, i + 1, output_base,
                    [cmd |-> acc.cmd \o <<flag, output_base>>, output_specified |-> TRUE])
            ELSE IF requires_value /\ value # None
            THEN nmap_params(parameters, i + 1, output_base,
                    [acc EXCEPT !.cmd = @ \o <<flag, py_str(value)>>])
            ELSE IF ~requires_value /\ is_true(value)
            THEN nmap_params(parameters, i + 1, output_base,
                    [acc EXCEPT !.cmd = Append(@, flag)])
            ELSE nmap_params(parameters, i + 1, output_base, acc)

build_nmap_command(target, parameters, scan_id, tool_name) ==
    LET output_dir == "/app/outputs/" \o scan_id \o "/" \o tool_name
        output_base == path_join(output_dir, "nmap_scan")
        looped == nmap_params(parameters, 1, output_base,
                              [cmd |-> <<"nmap">>, output_specified |-> FALSE])
        cmd == IF ~looped.output_specified
               THEN looped.cmd \o <<"-oX", output_base \o ".xml">>
               ELSE looped.cmd
    IN Built(Append(cmd, target))

RECURSIVE masscan_params(_, _, _)
masscan_params(parameters, i, cmd) ==
    IF i > Len(parameters) THEN cmd
    ELSE masscan_params(parameters, i + 1,
                        emit_plain(cmd, parameters[i].flag, parameters[i].value))

build_masscan_command(target, parameters, scan_id, tool_name) ==
    LET output_dir == "/app/outputs/" \o scan_id \o "/" \o tool_name
        output_base == path_join(output_dir, "masscan_scan.json")
        ports_specified == \E i \in 1..Len(parameters) :
                               parameters[i].flag \in {"-p", "--ports"}
        looped == masscan_params(parameters, 1, <<"masscan">>)
        ported == IF ~ports_specified THEN looped \o <<"-p", "1-1000">> ELSE looped
    IN Built(Append(ported \o <<"-oJ", output_base>>, target))

RECURSIVE amass_params(_, _, _)
amass_params(parameters, i, cmd) ==
    IF i > Len(parameters) THEN cmd
    ELSE LET flag == parameters[i].flag
             value == parameters[i].value
         IN IF falsy(flag) \/ flag \in {"enum", "intel", "-src", "-ip"}
            THEN amass_params(parameters, i + 1, cmd)
            ELSE IF flag = "-rf" /\ is_true(value)
            THEN amass_params(parameters, i + 1,
                    cmd \o <<"-rf", path_join("/app/wordlists", "subdomains-top1million-5000.txt")>>)
            ELSE IF flag \notin {"-d", "enum"}
            THEN amass_params(parameters, i + 1, emit_plain(cmd, flag, value))
            ELSE amass_params(parameters, i + 1, cmd)

build_amass_command(target, parameters, scan_id, tool_name) ==
    LET output_dir == "/app/outputs/" \o scan_id \o "/" \o tool_name
        output_file == path_join(output_dir, "amass_scan.txt")
    IN Built(amass_params(parameters, 1, <<"amass", "enum", "-d", target>>)
             \o <<"-o", output_file>>)

\* the first loop: the first parameter with flag -dL and a true value
RECURSIVE subfinder_domain_list(_, _)
subfinder_domain_list(parameters, i) ==
    IF i > Len(parameters) THEN FALSE
    ELSE IF parameters[i].flag = "-dL" /\ is_true(parameters[i].value) THEN TRUE
    ELSE subfinder_domain_list(parameters, i + 1)

\* the second loop: its first statement unpacks three values into the two
\* names  flag, value  and raises before the body is reached
subfinder_params(parameters, i, cmd) ==
    IF i > Len(parameters) THEN Built(cmd)
    ELSE Raises("ValueError", "too many values to unpack (expected 2)")

build_subfinder_command(target, parameters, scan_id, tool_name) ==
    LET output_dir == "/app/outputs/" \o scan_id \o "/" \o tool_name
        output_file == path_join(output_dir, "subfinder_scan.json")
        domain_flag_used == subfinder_domain_list(parameters, 1)
        cmd0 == <<"subfinder", "-silent">>
        cmd1 == IF domain_flag_used
                THEN cmd0 \o <<"-dL", path_join("/app/target_lists", "domains.txt")>>
                ELSE cmd0 \o <<"-d", target>>
        looped == subfinder_params(parameters, 1, cmd1)
    IN IF looped.raised THEN looped
       ELSE Built(looped.cmd \o <<"-oJ", output_file>>)

RECURSIVE theharvester_params(_, _, _)
theharvester_params(parameters, i, cmd) ==
    IF i > Len(parameters) THEN cmd
    ELSE LET flag == parameters[i].flag
             value == parameters[i].value
         IN IF flag \notin {"-d", "-f"}
            THEN theharvester_params(parameters, i + 1, emit_plain(cmd, flag, value))
            ELSE theharvester_params(parameters, i + 1, cmd)

build_theharvester_command(target, parameters, scan_id, tool_name) ==
    LET output_dir == "/app/outputs/" \o scan_id \o "/" \o tool_name
        output_file == path_join(output_dir, "theharvester_scan.html")
    IN Built(theharvester_params(parameters, 1, <<"theharvester", "-d", target>>)
             \o <<"-f", output_file>>)

\* next((param.value for param in parameters if param.flag == "mode"), None)
RECURSIVE gobuster_mode(_, _)
gobuster_mode(parameters, i) ==
    IF i > Len(parameters) THEN None
    ELSE IF parameters[i].flag = "mode" THEN parameters[i].value
    ELSE gobuster_mode(parameters, i + 1)

\* url = value if value else target, given the scheme http:// when it has none;
\* a value that is not a string has no startswith
http_url(value, target) ==
    LET url == IF ~falsy(value) THEN value ELSE target
    IN IF ~is_str(url) THEN Raises("AttributeError", "'bool' object has no attribute 'startswith'")
       ELSE IF ~startswith_http(url) THEN Built("http://" \o url)
       ELSE Built(url)

RECURSIVE gobuster_params(_, _, _, _, _, _)
gobuster_params(parameters, i, mode, target, output_base, acc) ==
    IF i > Len(parameters) \/ acc.raised THEN acc
    ELSE LET flag == parameters[i].flag
             value == parameters[i].value
             again(a) == gobuster_params(parameters, i + 1, mode, target, output_base, a)
         IN IF falsy(flag) \/ flag = "mode" THEN again(acc)
            ELSE IF flag = "-w"
            THEN IF is_true(value)
                 THEN again([acc EXCEPT !.cmd = @ \o <<flag, path_join("/app/wordlists", "common.txt")>>])
                 ELSE again(acc)
            ELSE IF flag = "-o"
            THEN again([acc EXCEPT !.cmd = @ \o <<flag, output_base \o ".txt">>])
            ELSE IF flag = "-u" \/ flag = "-d"
            THEN IF mode \in {"dir", "vhost"}
                 THEN LET url == http_url(value, target)
                      IN IF url.raised
                         THEN [acc EXCEPT !.raised = TRUE, !.exc = url.exc, !.msg = url.msg]
                         ELSE again([acc EXCEPT !.cmd = @ \o <<"-u", url.cmd>>,
                                                !.target_flag_set = TRUE])
                 ELSE again([acc EXCEPT !.cmd = @ \o <<"-d", IF ~falsy(value) THEN value ELSE target>>,
                                        !.target_flag_set = TRUE])
            ELSE again([acc EXCEPT !.cmd = emit_checked(@, flag, value)])

build_gobuster_command(target, parameters, scan_id, tool_name) ==
    LET output_dir == "/app/outputs/" \o scan_id \o "/" \o tool_name
        output_base == path_join(output_dir, "gobuster_scan")
        mode == gobuster_mode(parameters, 1)
        looped == gobuster_params(parameters, 1, mode, target, output_base,
                     [cmd |-> <<"gobuster", mode>>, target_flag_set |-> FALSE,
                      raised |-> FALSE, exc |-> "", msg |-> ""])
        cmd1 == IF ~looped.target_flag_set
                THEN IF mode \in {"dir", "vhost"}
                     THEN looped.cmd \o <<"-u", http_url(target, target).cmd>>
                     ELSE IF mode = "dns" THEN looped.cmd \o <<"-d", target>>
                     ELSE looped.cmd
                ELSE looped.cmd
        cmd2 == IF mode \in {"dir", "vhost"} /\ ~in_cmd("-w", cmd1)
                THEN cmd1 \o <<"-w", path_join("/app/wordlists", "common.txt")>>
                ELSE cmd1
        cmd3 == IF ~in_cmd("-o", cmd2) THEN cmd2 \o <<"-o", output_base \o ".txt">> ELSE cmd2
    IN IF looped.raised THEN Raises(looped.exc, looped.msg) ELSE Built(cmd3)

RECURSIVE dirsearch_params(_, _, _, _, _)
dirsearch_params(parameters, i, target, output_base, acc) ==
    IF i > Len(parameters) \/ acc.raised THEN acc
    ELSE LET flag == parameters[i].flag
             value == parameters[i].value
             again(a) == dirsearch_params(parameters, i + 1, target, output_base, a)
         IN IF falsy(flag) THEN again(acc)
            ELSE IF flag = "-w"
            THEN IF is_true(value)
                 THEN again([acc EXCEPT !.cmd = @ \o <<flag,
                                path_join("/app/wordlists", "directory-list-2.3-small.txt")>>])
                 ELSE again(acc)
            ELSE IF flag = "-o"
            THEN again([acc EXCEPT !.cmd = @ \o <<flag, output_base \o ".txt">>])
            ELSE IF flag = "-u"
            THEN LET url == http_url(value, target)
                 IN IF url.raised
                    THEN [acc EXCEPT !.raised = TRUE, !.exc = url.exc, !.msg = url.msg]
                    ELSE again([acc EXCEPT !.cmd = @ \o <<flag, url.cmd>>,
                                           !.target_flag_set = TRUE])
            ELSE again([acc EXCEPT !.cmd = emit_checked(@, flag, value)])

build_dirsearch_command(target, parameters, scan_id, tool_name) ==
    LET output_dir == "/app/outputs/" \o scan_id \o "/" \o tool_name
        output_base == path_join(output_dir, "dirsearch_scan")
        looped == dirsearch_params(parameters, 1, target, output_base,
                     [cmd |-> <<"dirsearch">>, target_flag_set |-> FALSE,
                      raised |-> FALSE, exc |-> "", msg |-> ""])
        cmd1 == IF ~looped.target_flag_set
                THEN looped.cmd \o <<"-u", http_url(target, target).cmd>>
                ELSE looped.cmd
        cmd2 == IF ~in_cmd("-w", cmd1)
                THEN cmd1 \o <<"-w", path_join("/app/wordlists", "directory-list-2.3-small.txt")>>
                ELSE cmd1
        cmd3 == IF ~in_cmd("-o", cmd2) THEN cmd2 \o <<"-o", output_base \o ".txt">> ELSE cmd2
    IN IF looped.raised THEN Raises(looped.exc, looped.msg) ELSE Built(cmd3)

RECURSIVE whatweb_params(_, _, _, _)
whatweb_params(parameters, i, output_base, acc) ==
    IF i > Len(parameters) THEN acc
    ELSE LET flag == parameters[i].flag
             value == parameters[i].value
         IN IF falsy(flag) \/ flag = "<target>"
            THEN whatweb_params(parameters, i + 1, output_base, acc)
            ELSE IF flag = "--log-brief"
            THEN whatweb_params(parameters, i + 1, output_base,
                    [cmd |-> acc.cmd \o <<flag, output_base \o ".txt">>,
                     output_specified |-> TRUE])
            ELSE whatweb_params(parameters, i + 1, output_base,
                    [acc EXCEPT !.cmd = emit_checked(@, flag, value)])

build_whatweb_command(target, parameters, scan_id, tool_name) ==
    LET output_dir == "/app/outputs/" \o scan_id \o "/" \o tool_name
        output_base == path_join(output_dir, "whatweb_scan")
        looped == whatweb_params(parameters, 1, output_base,
                                 [cmd |-> <<"whatweb">>, output_specified |-> FALSE])
        cmd == IF ~looped.output_specified
               THEN looped.cmd \o <<"--log-brief", output_base \o ".txt">>
               ELSE looped.cmd
    IN Built(Append(cmd, http_url(target, target).cmd))

-----------------------------------------------------------------------------
(* Calls of execute_command *)

Target == "example.com"

ExecTools ==
    {"nmap", "masscan", "amass", "subfinder", "theHarvester", "recon-ng",
     "gobuster", "dirsearch", "whatweb", "dnsenum"}

\* parameter lists dnsenum is built from
DnsenumParameters ==
    {<<>>,
     <<[flag |-> "--file", value |-> "true"]>>,
     <<[flag |-> "--threads", value |-> "5"], [flag |-> "--noreverse", value |-> "true"]>>}

\* the vectors the builders give for each tool
Commands(tool_name) ==
    LET dir == OutputDir(ScanId, tool_name) IN
    CASE tool_name = "nmap" ->
            {<<"nmap", "-sV", "-oX", path_join(dir, "nmap_scan.xml"), Target>>}
      [] tool_name = "masscan" ->
            {<<"masscan", "-p", "1-1000", "-oJ", path_join(dir, "masscan_scan.json"), Target>>}
      [] tool_name = "amass" ->
            {<<"amass", "enum", "-d", Target, "-o", path_join(dir, "amass_scan.txt")>>}
      [] tool_name = "subfinder" ->
            {<<"subfinder", "-silent", "-d", Target, "-oJ", path_join(dir, "subfinder_scan.json")>>}
      [] tool_name = "theHarvester" ->
            {<<"theharvester", "-d", Target, "-f", path_join(dir, "theharvester_scan.html")>>}
      [] tool_name = "recon-ng" ->
            {<<"recon-ng", "-r", path_join(dir, "workflow.rc")>>}
      [] tool_name = "gobuster" ->
            {<<"gobuster", None, "-o", path_join(dir, "gobuster_scan.txt")>>,
             <<"gobuster", "dns", "-d", Target, "-o", path_join(dir, "gobuster_scan.txt")>>}
      [] tool_name = "dirsearch" ->
            {<<"dirsearch", "-u", "http://" \o Target, "-w",
               "/app/wordlists/directory-list-2.3-small.txt", "-o", path_join(dir, "dirsearch_scan.txt")>>}
      [] tool_name = "whatweb" ->
            {<<"whatweb", "--log-brief", path_join(dir, "whatweb_scan.txt"), "http://" \o Target>>}
      [] tool_name = "dnsenum" ->
            {build_dnsenum_command(Target, ps, ScanId, tool_name) : ps \in DnsenumParameters}

\* the flag with which each tool is told where to write its result
OwnOutputFlag(tool_name) ==
    CASE tool_name = "nmap" -> "-oX"
      [] tool_name = "masscan" -> "-oJ"
      [] tool_name = "amass" -> "-o"
      [] tool_name = "subfinder" -> "-oJ"
      [] tool_name = "theHarvester" -> "-f"
      [] tool_name = "gobuster" -> "-o"
      [] tool_name = "dirsearch" -> "-o"
      [] tool_name = "whatweb" -> "--log-brief"
      [] tool_name = "dnsenum" -> "-o"
      [] OTHER -> None

\* the file the tool writes its result to: the one named after its own
\* output flag (recon-ng: the report its workflow script names)
OwnOutputFile(tool_name, command) ==
    IF tool_name = "recon-ng" THEN path_join(OutputDir(ScanId, tool_name), "report.html")
    ELSE command[(CHOOSE i \in 1..(Len(command) - 1) : command[i] = OwnOutputFlag(tool_name)) + 1]

ReturnCodes == {0, 1}

StdoutSamples == {"", "80/tcp open http", "Host NOT FOUND", "[!] partial results"}

StderrSamples ==
    {"", "Error: invalid option", "Traceback (most recent call last)",
     "query failed for x", "can't locate Net::DNS", "Can't Locate Net/DNS.pm: NOERROR",
     "warning: slow link"}

Env(fault, spawn, rc, stdout, stderr, tool_files) ==
    [fault |-> fault, spawn |-> spawn, rc |-> rc, stdout |-> stdout, stderr |-> stderr,
     tool_files |-> tool_files]

\* what can happen around one call with this command
Envs(tool_name, command) ==
    {Env("mkdir", "none", 0, "", "", {})}
    \cup
    (IF ~shlex_join_ok(command) THEN {Env("none", "none", 0, "", "", {})}
     ELSE LET produced == {{}, {OwnOutputFile(tool_name, command)}} IN
          {Env("none", "error", 0, "", "", {})}
          \cup {Env(f, "timeout", 0, so, se, tf) :
                  f \in {"none", "handler"}, so \in StdoutSamples, se \in StderrSamples,
                  tf \in produced}
          \cup {Env(f, "completed", rc, so, se, tf) :
                  f \in {"none", "stdout", "stderr", "fallback"}, rc \in ReturnCodes,
                  so \in StdoutSamples, se \in StderrSamples, tf \in produced})

ExecuteCommand ==
    /\ ex_pc = "ready"
    /\ \E env \in Envs(ex_tool, ex_command) :
         \E r \in execute_command(ex_command, ScanId, ex_tool, env) :
            /\ ex_env' = env
            /\ ex_outcome' = r.outcome
            /\ ex_result' = r.result
            /\ ex_writes' = r.writes
            /\ fs_files' = r.files
            /\ fs_dirs' = r.dirs
    /\ ex_pc' = "done"
    /\ UNCHANGED <<ex_tool, ex_command>>
    /\ UNCHANGED <<pp_vars, bd_vars, sc_vars, ar_vars>>

\* no post-processor is part of the run
PostOff ==
    /\ pp_pc = "off"
    /\ pp_tool = ""
    /\ pp_output_files = <<>>
    /\ pp_processor = ""
    /\ pp_uploads = <<>>
    /\ pp_deleted = FALSE

Wordlists ==
    {"/app/wordlists/subdomains-top1million-5000.txt", "/app/wordlists/common.txt",
     "/app/wordlists/directory-list-2.3-small.txt"}

\* a builder has returned (it made the output directory; recon-ng's wrote
\* workflow.rc there) and execute_command is about to be called
InitExec ==
    /\ PostOff
    /\ BuildOff
    /\ ScanOff
    /\ ArgoOff
    /\ ex_pc = "ready"
    /\ ex_tool \in ExecTools
    /\ ex_command \in Commands(ex_tool)
    /\ ex_env = <<>>
    /\ ex_outcome = "none"
    /\ ex_result = <<>>
    /\ ex_writes = <<>>
    /\ fs_dirs = {"/app/wordlists"} \cup makedirs(OutputDir(ScanId, ex_tool))
    /\ \E installed \in {Wordlists, {}} :
          fs_files = installed \cup
                     (IF ex_tool = "recon-ng"
                      THEN {path_join(OutputDir(ScanId, ex_tool), "workflow.rc")}
                      ELSE {})

NextExec == ExecuteCommand

SpecExec == InitExec /\ [][NextExec]_vars

\* s.replace(old, new), scanning from position i
RECURSIVE replace_from(_, _, _, _)
replace_from(s, old, new, i) ==
    IF i > Len(s) THEN ""
    ELSE IF i + Len(old) - 1 <= Len(s) /\ SubSeq(s, i, i + Len(old) - 1) = old
    THEN new \o replace_from(s, old, new, i + Len(old))
    ELSE CharAt(s, i) \o replace_from(s, old, new, i + 1)

replace(s, old, new) == replace_from(s, old, new, 1)

template_path == "/app/scripts/templates/recon_ng_template.rc"

\* the first parameter with flag --workspace and a truthy value gives the workspace
RECURSIVE recon_ng_workspace(_, _, _)
recon_ng_workspace(parameters, i, workspace) ==
    IF i > Len(parameters) THEN workspace
    ELSE IF parameters[i].flag = "--workspace" /\ ~falsy(parameters[i].value)
    THEN parameters[i].value
    ELSE recon_ng_workspace(parameters, i + 1, workspace)

\* env.template: "ok", or "absent" / "denied" for what open() of the template
\* raises; env.write: "ok", or "missing_dir" / "denied" for what open() of
\* workflow.rc for writing raises (FileNotFoundError / PermissionError)
build_recon_ng_command(target, parameters, scan_id, tool_name, env) ==
    LET output_dir == "/app/outputs/" \o scan_id \o "/" \o tool_name
        temp_script_path == path_join(output_dir, "workflow.rc")
        output_report_path == path_join(output_dir, "report.html")
        workspace == recon_ng_workspace(parameters, 1,
                        replace(target, ".", "_") \o "_" \o scan_id)
        script_content ==
            replace(replace(replace(env.template_content,
                "{{ workspace }}", workspace),
                "{{ domain }}", target),
                "{{ output_file }}", output_report_path)
    IN IF env.template = "absent"
       THEN Raises("ValueError", "Recon-ng template file not found.")
       ELSE IF env.template = "denied"
       THEN Raises("ValueError", "Failed to create recon-ng script: Permission denied")
       ELSE IF ~is_str(workspace)
       THEN Raises("ValueError", "Failed to create recon-ng script: replace() argument 2 must be str")
       ELSE IF env.write = "missing_dir"
       THEN Raises("ValueError", "Recon-ng template file not found.")
       ELSE IF env.write = "denied"
       THEN Raises("ValueError", "Failed to create recon-ng script: Permission denied")
       ELSE [raised |-> FALSE, exc |-> "", msg |-> "",
             cmd |-> <<"recon-ng", "-r", temp_script_path>>,
             script |-> script_content]


\* ToolRunner._tool_registry
registered_builders ==
    {"nmap", "masscan", "amass", "subfinder", "theharvester", "recon-ng",
     "gobuster", "dirsearch", "whatweb", "dnsenum"}

get_command_builder(tool_name) ==
    IF tool_name \notin registered_builders
    THEN Raises("ValueError", "Unsupported tool: " \o tool_name)
    ELSE Built(<<tool_name>>)

-----------------------------------------------------------------------------
(* Calls of the builders *)

BuildTools ==
    {"nmap", "masscan", "amass", "subfinder", "theHarvester", "recon-ng",
     "gobuster", "dirsearch", "whatweb", "dnsenum"}

Param(flag, value, requiresValue) ==
    [flag |-> flag, value |-> value, requiresValue |-> requiresValue]

\* flags a caller sends to each tool: none or an empty one, the positional
\* sentinel, the output flags, the pointer flag, an ordinary option
FlagSamples(tool_name) ==
    CASE tool_name = "nmap" -> {"", "<target>", "-oX", "-oN", "-sV"}
      [] tool_name = "masscan" -> {"", None, "--rate", "-oJ", "-p"}
      [] tool_name = "amass" -> {"", "intel", "-rf", "-o", "-passive"}
      [] tool_name = "subfinder" -> {"", "-dL", "-oJ", "-all"}
      [] tool_name = "theHarvester" -> {"", "-f", "-b", "-d"}
      [] tool_name = "recon-ng" -> {"--workspace", "-x"}
      [] tool_name = "gobuster" -> {"", "-w", "-o", "-d", "-t"}
      [] tool_name = "dirsearch" -> {"", "-w", "-o", "-u", "-t"}
      [] tool_name = "whatweb" -> {"", "<target>", "--log-brief", "-a"}
      [] tool_name = "dnsenum" -> {"", "<domain>", "--file", "-o", "--threads"}

\* values a parameter carries, with its requiresValue
ValueSamples ==
    {<<None, FALSE>>, <<"", TRUE>>, <<"false", FALSE>>, <<PyFalse, FALSE>>,
     <<"true", FALSE>>, <<PyTrue, FALSE>>, <<"5", TRUE>>}

ParamSamples(tool_name) ==
    {Param(f, v[1], v[2]) : f \in FlagSamples(tool_name), v \in ValueSamples}
    \cup (IF tool_name = "gobuster"
          THEN {Param("mode", "dir", TRUE), Param("mode", "dns", TRUE)}
          ELSE {})

ParameterLists(tool_name) ==
    UNION {[1..n -> ParamSamples(tool_name)] : n \in 0..MaxParams}

TemplateSamples ==
    {"workspaces load {{ workspace }};set SOURCE {{ domain }};set FILENAME {{ output_file }}",
     "db insert domains {{ domain }};{{ domain }}"}

BuildEnv(mkdir, template, template_content, write) ==
    [mkdir |-> mkdir, template |-> template, template_content |-> template_content,
     write |-> write]

\* what the disk can do during one builder call: at most one failure
BuildEnvs(tool_name) ==
    IF tool_name = "recon-ng"
    THEN {BuildEnv("denied", "ok", "", "ok"), BuildEnv("ok", "denied", "", "ok")}
         \cup {BuildEnv("ok", "ok", t, w) :
                 t \in TemplateSamples, w \in {"ok", "denied", "missing_dir"}}
    ELSE {BuildEnv("ok", "ok", "", "ok"), BuildEnv("denied", "ok", "", "ok")}

Builds(name) ==
    /\ bd_pc = "ready"
    /\ lower(bd_tool) = name
    /\ ~get_command_builder(lower(bd_tool)).raised

\* the builder runs to its end; r is what it gives once os.makedirs(output_dir)
\* has succeeded
RunBuilder(r) ==
    /\ bd_pc' = "done"
    /\ IF bd_env.mkdir = "denied"
       THEN /\ bd_result' = Raises("PermissionError", "Permission denied")
            /\ UNCHANGED fs_vars
       ELSE /\ bd_result' = r
            /\ fs_dirs' = IF bd_env.write = "missing_dir"
                          THEN fs_dirs \cup makedirs(dirname(OutputDir(ScanId, bd_tool)))
                          ELSE fs_dirs \cup makedirs(OutputDir(ScanId, bd_tool))
            /\ fs_files' = IF lower(bd_tool) = "recon-ng" /\ ~r.raised
                           THEN fs_files \cup {path_join(OutputDir(ScanId, bd_tool), "workflow.rc")}
                           ELSE fs_files
    /\ UNCHANGED <<bd_tool, bd_parameters, bd_env>>
    /\ UNCHANGED <<pp_vars, ex_vars, sc_vars, ar_vars>>

BuildNmap ==
    /\ Builds("nmap")
    /\ RunBuilder(build_nmap_command(Target, bd_parameters, ScanId, bd_tool))

BuildMasscan ==
    /\ Builds("masscan")
    /\ RunBuilder(build_masscan_command(Target, bd_parameters, ScanId, bd_tool))

BuildAmass ==
    /\ Builds("amass")
    /\ RunBuilder(build_amass_command(Target, bd_parameters, ScanId, bd_tool))

BuildSubfinder ==
    /\ Builds("subfinder")
    /\ RunBuilder(build_subfinder_command(Target, bd_parameters, ScanId, bd_tool))

BuildTheHarvester ==
    /\ Builds("theharvester")
    /\ RunBuilder(build_theharvester_command(Target, bd_parameters, ScanId, bd_tool))

BuildReconNg ==
    /\ Builds("recon-ng")
    /\ RunBuilder(build_recon_ng_command(Target, bd_parameters, ScanId, bd_tool,
            [bd_env EXCEPT !.template = IF template_path \notin fs_files THEN "absent" ELSE @]))

BuildGobuster ==
    /\ Builds("gobuster")
    /\ RunBuilder(build_gobuster_command(Target, bd_parameters, ScanId, bd_tool))

BuildDirsearch ==
    /\ Builds("dirsearch")
    /\ RunBuilder(build_dirsearch_command(Target, bd_parameters, ScanId, bd_tool))

BuildWhatweb ==
    /\ Builds("whatweb")
    /\ RunBuilder(build_whatweb_command(Target, bd_parameters, ScanId, bd_tool))

BuildDnsenum ==
    /\ Builds("dnsenum")
    /\ RunBuilder(Built(build_dnsenum_command(Target, bd_parameters, ScanId, bd_tool)))

\* a builder has been looked up and is about to be called
InitBuild ==
    /\ PostOff
    /\ ExecOff
    /\ ScanOff
    /\ ArgoOff
    /\ bd_pc = "ready"
    /\ bd_tool \in BuildTools
    /\ bd_parameters \in ParameterLists(bd_tool)
    /\ bd_env \in BuildEnvs(bd_tool)
    /\ bd_result = <<>>
    /\ fs_dirs = {"/app", "/app/outputs", "/app/scripts", "/app/scripts/templates"}
    /\ fs_files \in (IF bd_tool = "recon-ng" /\ bd_env.template = "ok" /\ bd_env.mkdir = "ok"
                        /\ bd_env.write = "ok"
                     THEN {{template_path}, {}}
                     ELSE {{template_path}})

NextBuild ==
    \/ BuildNmap
    \/ BuildMasscan
    \/ BuildAmass
    \/ BuildSubfinder
    \/ BuildTheHarvester
    \/ BuildReconNg
    \/ BuildGobuster
    \/ BuildDirsearch
    \/ BuildWhatweb
    \/ BuildDnsenum

SpecBuild == InitBuild /\ [][NextBuild]_vars

-----------------------------------------------------------------------------
(* The orchestration loops: execute_scan_logic (tasks.py) and the Flask     *)
(* handler execute_scan (main.py)                                           *)

\* builder(target=..., parameters=..., scan_id=..., tool_name=...), the
\* builder being the one registered under tool_name.lower(); every builder
\* first makes its output directory
call_builder(files, tool_name, target, parameters, scan_id, env) ==
    LET key == lower(tool_name) IN
    IF env.mkdir = "denied" THEN Raises("PermissionError", "Permission denied")
    ELSE CASE key = "nmap" -> build_nmap_command(target, parameters, scan_id, tool_name)
           [] key = "masscan" -> build_masscan_command(target, parameters, scan_id, tool_name)
           [] key = "amass" -> build_amass_command(target, parameters, scan_id, tool_name)
           [] key = "subfinder" -> build_subfinder_command(target, parameters, scan_id, tool_name)
           [] key = "theharvester" -> build_theharvester_command(target, parameters, scan_id, tool_name)
           [] key = "recon-ng" ->
                build_recon_ng_command(target, parameters, scan_id, tool_name,
                    [env EXCEPT !.template = IF template_path \notin files THEN "absent" ELSE @])
           [] key = "gobuster" -> build_gobuster_command(target, parameters, scan_id, tool_name)
           [] key = "dirsearch" -> build_dirsearch_command(target, parameters, scan_id, tool_name)
           [] key = "whatweb" -> build_whatweb_command(target, parameters, scan_id, tool_name)
           [] key = "dnsenum" -> Built(build_dnsenum_command(target, parameters, scan_id, tool_name))

\* resolve_to_ip(target) of app/utils.py, when it returns
resolve_to_ip(target) == "93.184.216.34"

\* an entry of the log: a call the loop made for tool i
Event(ev, i, arg) == [ev |-> ev, i |-> i, arg |-> arg]

\* what one pass of the loop body leaves: the results appended, the calls
\* made, whether an exception left the loop, and the disk
Pass(results, log, aborted, files, dirs) ==
    [results |-> results, log |-> log, aborted |-> aborted, files |-> files, dirs |-> dirs]

\* the per-tool result appended by the except clauses
failed_result(tool_name, stderr) == ToolOutput(tool_name, <<>>, -1, "", stderr, <<>>, FALSE)

\* tasks.py: except Exception as e, entered at stage with the results and
\* the log so far
handle_failure(i, tool_name, stage, e, env, results, log, files, dirs) ==
    IF env.cb_failed = "raise"
    THEN Pass(results,
              log \o <<Event("caught", i, stage), Event("status", i, "failed")>>,
              TRUE, files, dirs)
    ELSE Pass(Append(results, [i |-> i, out |-> failed_result(tool_name, e)]),
              log \o <<Event("caught", i, stage), Event("status", i, "failed")>>,
              FALSE, files, dirs)

\* the disk a builder leaves: its output directory, and recon-ng's script
built_dirs(dirs, built, scan_id, tool_name) ==
    IF built.raised /\ built.exc = "PermissionError" THEN dirs
    ELSE dirs \cup makedirs(OutputDir(scan_id, tool_name))

built_files(files, built, scan_id, tool_name) ==
    IF lower(tool_name) = "recon-ng" /\ ~built.raised
    THEN files \cup {path_join(OutputDir(scan_id, tool_name), "workflow.rc")}
    ELSE files

\* tasks.py lines 57-65: execute_command, results.append, the 'completed' report
logic_execute(i, tool_name, scan_id, env, command, log, files, dirs) ==
    UNION {
      IF x.outcome = "raised"
      THEN {handle_failure(i, tool_name, "execute", "execute_command failed", env,
                           <<>>, Append(log, Event("execute", i, lower(tool_name))),
                           x.files, x.dirs)}
      ELSE IF env.cb_completed = "raise"
      THEN {handle_failure(i, tool_name, "callback", "status update failed", env,
                           <<[i |-> i, out |-> x.result]>>,
                           log \o <<Event("execute", i, lower(tool_name)),
                                    Event("status", i, "completed")>>,
                           x.files, x.dirs)}
      ELSE {Pass(<<[i |-> i, out |-> x.result]>>,
                 log \o <<Event("execute", i, lower(tool_name)),
                          Event("status", i, "completed")>>,
                 FALSE, x.files, x.dirs)}
      : x \in execute_command_on(files, dirs, command, scan_id, tool_name, env.exec)}

\* tasks.py lines 49-55: the builder is looked up and called
logic_build(i, tool_request, current_target, scan_id, env, log, files, dirs) ==
    IF get_command_builder(lower(tool_request.name)).raised
    THEN {handle_failure(i, tool_request.name, "lookup",
                         get_command_builder(lower(tool_request.name)).msg, env, <<>>,
                         Append(log, Event("lookup", i, lower(tool_request.name))),
                         files, dirs)}
    ELSE LET built == call_builder(files, tool_request.name, current_target,
                                   tool_request.parameters, scan_id, env.build)
             log2 == log \o <<Event("lookup", i, lower(tool_request.name)),
                              Event("build", i, lower(tool_request.name))>>
         IN IF built.raised
            THEN {handle_failure(i, tool_request.name, "build", built.msg, env, <<>>, log2,
                                 built_files(files, built, scan_id, tool_request.name),
                                 built_dirs(dirs, built, scan_id, tool_request.name))}
            ELSE logic_execute(i, tool_request.name, scan_id, env, built.cmd, log2,
                               built_files(files, built, scan_id, tool_request.name),
                               built_dirs(dirs, built, scan_id, tool_request.name))

\* the body of the for loop of execute_scan_logic for tool i (lines 39-81)
scan_logic_pass(i, tool_request, target, scan_id, env, files, dirs) ==
    IF env.cb_running = "raise"
    THEN {handle_failure(i, tool_request.name, "callback", "status update failed", env,
                         <<>>, <<Event("status", i, "running")>>, files, dirs)}
    ELSE IF lower(tool_request.name) = "masscan" /\ env.resolve = "raise"
    THEN {handle_failure(i, tool_request.name, "resolve", "Name or service not known", env,
                         <<>>, <<Event("status", i, "running")>>, files, dirs)}
    ELSE logic_build(i, tool_request,
                     IF lower(tool_request.name) = "masscan" THEN resolve_to_ip(target) ELSE target,
                     scan_id, env, <<Event("status", i, "running")>>, files, dirs)

\* main.py: except ValueError / except Exception, each appending a failed result
flask_failure(i, tool_name, stage, exc, e, log, files, dirs) ==
    Pass(<<[i |-> i,
            out |-> failed_result(tool_name,
                        IF exc = "ValueError" THEN e ELSE "Internal error: " \o e)]>>,
         Append(log, Event("caught", i, stage)), FALSE, files, dirs)

\* main.py lines 59-64: execute_command, results.append
flask_execute(i, tool_name, scan_id, env, command, log, files, dirs) ==
    {IF x.outcome = "raised"
     THEN flask_failure(i, tool_name, "execute",
                        IF shlex_join_ok(command) THEN "OSError" ELSE "ValueError",
                        "execute_command failed",
                        Append(log, Event("execute", i, lower(tool_name))), x.files, x.dirs)
     ELSE Pass(<<[i |-> i, out |-> x.result]>>,
               Append(log, Event("execute", i, lower(tool_name))), FALSE, x.files, x.dirs)
     : x \in execute_command_on(files, dirs, command, scan_id, tool_name, env.exec)}

\* main.py lines 48-56: the builder is looked up and called
flask_build(i, tool_request, current_target, scan_id, env, files, dirs) ==
    IF get_command_builder(lower(tool_request.name)).raised
    THEN {flask_failure(i, tool_request.name, "lookup", "ValueError",
                        get_command_builder(lower(tool_request.name)).msg,
                        <<Event("lookup", i, lower(tool_request.name))>>, files, dirs)}
    ELSE LET built == call_builder(files, tool_request.name, current_target,
                                   tool_request.parameters, scan_id, env.build)
             log2 == <<Event("lookup", i, lower(tool_request.name)),
                       Event("build", i, lower(tool_request.name))>>
         IN IF built.raised
            THEN {flask_failure(i, tool_request.name, "build", built.exc, built.msg, log2,
                                built_files(files, built, scan_id, tool_request.name),
                                built_dirs(dirs, built, scan_id, tool_request.name))}
            ELSE flask_execute(i, tool_request.name, scan_id, env, built.cmd, log2,
                               built_files(files, built, scan_id, tool_request.name),
                               built_dirs(dirs, built, scan_id, tool_request.name))

\* the body of the for loop of execute_scan for tool i (lines 42-89): no
\* status is reported
flask_pass(i, tool_request, target, scan_id, env, files, dirs) ==
    IF lower(tool_request.name) = "masscan" /\ env.resolve = "raise"
    THEN {flask_failure(i, tool_request.name, "resolve", "gaierror",
                        "Name or service not known", <<>>, files, dirs)}
    ELSE flask_build(i, tool_request,
                     IF lower(tool_request.name) = "masscan" THEN resolve_to_ip(target) ELSE target,
                     scan_id, env, files, dirs)

\* status and message of the ScanResponse
scan_response(scan_id, target, results) ==
    LET all_success == \A k \in 1..Len(results) : results[k].out.success
        any_success == \E k \in 1..Len(results) : results[k].out.success
    IN [scan_id |-> scan_id, target |-> target,
        results |-> [k \in 1..Len(results) |-> results[k].out],
        status |-> IF all_success THEN "success"
                   ELSE IF any_success THEN "partial_failure" ELSE "failed"]

-----------------------------------------------------------------------------
(* Calls of the orchestration loops *)

ToolRequest(name, parameters) == [name |-> name, parameters |-> parameters]

\* tools a scan asks for: one that runs, one with no builder, one whose
\* builder raises, one whose vector holds None, one that needs its template,
\* one whose target is resolved first
ToolRequests ==
    {ToolRequest("nmap", <<Param("-sV", "true", FALSE)>>),
     ToolRequest("nikto", <<>>),
     ToolRequest("subfinder", <<Param("-all", "true", FALSE)>>),
     ToolRequest("gobuster", <<>>),
     ToolRequest("recon-ng", <<>>),
     ToolRequest("masscan", <<>>)}

ScanRequests == UNION {[1..n -> ToolRequests] : n \in 0..MaxTools}

\* what the process run by execute_command does during one pass
ScanExecEnvs ==
    {Env("none", "completed", 0, "80/tcp open http", "", {}),
     Env("none", "completed", 1, "", "Error: invalid option", {}),
     Env("none", "timeout", 0, "", "", {}),
     Env("handler", "timeout", 0, "", "", {}),
     Env("none", "error", 0, "", "", {})}

\* which of the status reports of one pass raise
CallbackEnvs ==
    {<<"ok", "ok", "ok">>, <<"raise", "ok", "ok">>, <<"ok", "raise", "ok">>,
     <<"ok", "ok", "raise">>, <<"ok", "raise", "raise">>, <<"raise", "ok", "raise">>}

ScanEnv(cb, resolve, build, exec) ==
    [cb_running |-> cb[1], cb_completed |-> cb[2], cb_failed |-> cb[3],
     resolve |-> resolve, build |-> build, exec |-> exec]

ScanTemplate ==
    "workspaces load {{ workspace }};set SOURCE {{ domain }};set FILENAME {{ output_file }}"

\* what can happen around one pass of the loop for this tool
ScanEnvs(tool_name) ==
    LET build_ok == BuildEnv("ok", "ok", ScanTemplate, "ok")
        clean == Env("none", "completed", 0, "80/tcp open http", "", {})
    IN {ScanEnv(cb, "ok", build_ok, x) : cb \in CallbackEnvs, x \in ScanExecEnvs}
       \cup {ScanEnv(cb, "ok", BuildEnv("denied", "ok", ScanTemplate, "ok"), clean) :
               cb \in CallbackEnvs}
       \cup (IF lower(tool_name) = "masscan"
             THEN {ScanEnv(cb, "raise", build_ok, clean) : cb \in CallbackEnvs}
             ELSE {})

\* the loop takes the pass p for the tool it is at
TakePass(p) ==
    /\ sc_results' = sc_results \o p.results
    /\ sc_log' = sc_log \o p.log
    /\ IF p.aborted
       THEN sc_pc' = "raised" /\ sc_i' = sc_i
       ELSE sc_pc' = "loop" /\ sc_i' = sc_i + 1
    /\ fs_files' = p.files
    /\ fs_dirs' = p.dirs
    /\ UNCHANGED <<sc_entry, sc_tools, sc_response>>
    /\ UNCHANGED <<pp_vars, ex_vars, bd_vars, ar_vars>>

\* execute_scan_logic: one pass of the for loop
LogicRunTool ==
    /\ sc_pc = "loop"
    /\ sc_entry = "tasks"
    /\ sc_i <= Len(sc_tools)
    /\ \E env \in ScanEnvs(sc_tools[sc_i].name) :
          \E p \in scan_logic_pass(sc_i, sc_tools[sc_i], Target, ScanId, env, fs_files, fs_dirs) :
             TakePass(p)

\* execute_scan_logic after the loop: the response is built and written to
\* /app/outputs/<scan_id>/final_results.json; a failing write is re-raised
LogicFinish ==
    /\ sc_pc = "loop"
    /\ sc_entry = "tasks"
    /\ sc_i > Len(sc_tools)
    /\ sc_response' = scan_response(ScanId, Target, sc_results)
    /\ \E written \in BOOLEAN :
          IF written
          THEN /\ sc_pc' = "returned"
               /\ fs_dirs' = fs_dirs \cup makedirs("/app/outputs/" \o ScanId)
               /\ fs_files' = fs_files \cup {"/app/outputs/" \o ScanId \o "/final_results.json"}
          ELSE /\ sc_pc' = "raised"
               /\ UNCHANGED fs_vars
    /\ UNCHANGED <<sc_entry, sc_tools, sc_i, sc_results, sc_log>>
    /\ UNCHANGED <<pp_vars, ex_vars, bd_vars, ar_vars>>

\* execute_scan: one pass of the for loop
FlaskRunTool ==
    /\ sc_pc = "loop"
    /\ sc_entry = "flask"
    /\ sc_i <= Len(sc_tools)
    /\ \E env \in {e \in ScanEnvs(sc_tools[sc_i].name) : e.cb_running = "ok"
                       /\ e.cb_completed = "ok" /\ e.cb_failed = "ok"} :
          \E p \in flask_pass(sc_i, sc_tools[sc_i], Target, ScanId, env, fs_files, fs_dirs) :
             TakePass(p)

\* execute_scan after the loop: the response is returned with status 200
FlaskFinish ==
    /\ sc_pc = "loop"
    /\ sc_entry = "flask"
    /\ sc_i > Len(sc_tools)
    /\ sc_response' = scan_response(ScanId, Target, sc_results)
    /\ sc_pc' = "returned"
    /\ UNCHANGED <<sc_entry, sc_tools, sc_i, sc_results, sc_log>>
    /\ UNCHANGED <<fs_vars, pp_vars, ex_vars, bd_vars, ar_vars>>

\* the request has been validated and the loop is about to start
InitScan ==
    /\ PostOff
    /\ ExecOff
    /\ BuildOff
    /\ ArgoOff
    /\ sc_pc = "loop"
    /\ sc_entry \in {"tasks", "flask"}
    /\ sc_tools \in ScanRequests
    /\ sc_i = 1
    /\ sc_results = <<>>
    /\ sc_log = <<>>
    /\ sc_response = <<>>
    /\ fs_dirs = {"/app", "/app/outputs", "/app/scripts", "/app/scripts/templates"}
    /\ fs_files \in {{template_path}, {}}

NextScan ==
    \/ LogicRunTool
    \/ LogicFinish
    \/ FlaskRunTool
    \/ FlaskFinish

SpecScan == InitScan /\ [][NextScan]_vars

-----------------------------------------------------------------------------
(* Properties of the post-processors *)

\* a step in which a processor runs
ProcessorRuns == pp_pc = "ready" /\ pp_pc' = "done"

\* the path of a named file of the tool's output directory
InDir(n) == OutputDir(ScanId, pp_tool) \o "/" \o n

\* the files each upload policy sends, by processor
PolicySources(processor) ==
    CASE processor = "masscan" -> {InDir("masscan_scan.json")}
      [] processor = "amass" -> {InDir("amass_scan.txt")}
      [] processor = "subfinder" -> {InDir("subfinder_scan.json")}
      [] processor = "theharvester" -> {InDir("theharvester_scan.json"), InDir("output.stdout")}
      [] processor = "recon-ng" -> {InDir("report.html"), InDir("output.stdout")}
      [] processor = "gobuster" -> {InDir("gobuster_scan.txt"), InDir("output.stdout")}
      [] processor = "dirsearch" -> {InDir("dirsearch_scan.txt")}
      [] processor = "whatweb" -> {InDir("whatweb_scan.txt")}
      [] processor = "nmap" -> {InDir("output.stdout"), InDir("nmap_scan.xml")}
      [] processor = "dnsenum" -> {InDir("output.stdout"), InDir("output.stderr"), InDir("dnsenum_scan.xml")}
      [] OTHER -> {pp_output_files[i] : i \in 1..Len(pp_output_files)}

\* C1: whenever a processor runs and a file its policy uploads is not on
\* disk, delete_local_directory is not called.
C1_MissingSourceBlocksCleanup ==
    [][ProcessorRuns /\ (\E p \in PolicySources(pp_processor') : p \notin fs_files)
          => ~pp_deleted']_vars

\* C2: a processor calls delete_local_directory only if every upload it
\* attempted returned success; masscan, amass and whatweb attempt the llm and
\* the review upload of their file whatever the first returned.
C2_DeleteOnlyIfAllUploadsSucceeded ==
    [][ProcessorRuns =>
          /\ pp_deleted' => \A i \in 1..Len(pp_uploads') : pp_uploads'[i].ok
          /\ \A t \in {"masscan", "amass", "whatweb"} :
                (pp_processor' = t /\ PolicySources(t) \subseteq fs_files)
                    => /\ Len(pp_uploads') = 2
                       /\ \E n \in {"masscan_scan.json", "amass_scan.txt", "whatweb_scan.txt"} :
                            /\ pp_uploads'[1].dst = "data/s1/recon/" \o pp_tool \o "/llm/" \o n
                            /\ pp_uploads'[2].dst = "data/s1/recon/" \o pp_tool \o "/review/" \o n
       ]_vars

\* masscan ran, its llm upload failed, its review upload succeeded, and the
\* directory is still there
C2_Witness ==
    /\ pp_pc = "done"
    /\ pp_processor = "masscan"
    /\ Len(pp_uploads) = 2
    /\ pp_uploads[1].dst = "data/s1/recon/masscan/llm/masscan_scan.json"
    /\ ~pp_uploads[1].ok
    /\ pp_uploads[2].dst = "data/s1/recon/masscan/review/masscan_scan.json"
    /\ pp_uploads[2].ok
    /\ ~pp_deleted
    /\ "/app/outputs/s1/masscan/masscan_scan.json" \in fs_files

\* the listed paths that are files on disk, in list order
ListedArtifacts == SelectSeq(pp_output_files, LAMBDA p : p \in fs_files)

\* C3: the default processor uploads every listed artifact, each once and in
\* list order, to data/<scan_id>/recon/<tool_name>/review/<filename>, a failed
\* upload not stopping the later ones, and deletes output_dir if and only if
\* every one of those uploads succeeded.
C3_DefaultUploadsAllToReview ==
    [][(ProcessorRuns /\ pp_processor' = "default") =>
          /\ Len(pp_uploads') = Len(ListedArtifacts)
          /\ \A i \in 1..Len(ListedArtifacts) :
                /\ pp_uploads'[i].src = ListedArtifacts[i]
                /\ \E n \in {"output.stdout", "output.stderr", "nikto_scan.txt"} :
                      /\ ListedArtifacts[i] = "/app/outputs/s1/" \o pp_tool \o "/" \o n
                      /\ pp_uploads'[i].dst = "data/s1/recon/" \o pp_tool \o "/review/" \o n
          /\ pp_deleted' <=> \A i \in 1..Len(pp_uploads') : pp_uploads'[i].ok
       ]_vars

\* the default processor was given two artifacts, the first upload failed,
\* the second was still made, and the directory is still there
C3_Witness ==
    /\ pp_pc = "done"
    /\ pp_processor = "default"
    /\ Len(pp_output_files) = 2
    /\ Len(pp_uploads) = 2
    /\ ~pp_uploads[1].ok
    /\ pp_uploads[2].ok
    /\ pp_uploads[2].dst = "data/s1/recon/nikto/review/output.stderr"
    /\ ~pp_deleted
    /\ fs_dirs # {}

\* the default processor was given two artifacts, both uploads succeeded,
\* and the directory is gone
C3_WitnessDeleted ==
    /\ pp_pc = "done"
    /\ pp_processor = "default"
    /\ Len(pp_uploads) = 2
    /\ pp_uploads[1].ok /\ pp_uploads[2].ok
    /\ pp_deleted
    /\ fs_dirs = {} /\ fs_files = {}

\* C4: when none of the files a tool-specific processor looks for exists, it
\* attempts no upload and does not delete the directory; no tool-specific
\* processor deletes the directory without having attempted an upload.
C4_NoFilesNoCleanup ==
    [][(ProcessorRuns /\ pp_processor' # "default") =>
          /\ (PolicySources(pp_processor') \cap fs_files = {})
                => (pp_uploads' = <<>> /\ ~pp_deleted')
          /\ pp_deleted' => pp_uploads' # <<>>
       ]_vars

\* dnsenum's processor ran on an empty directory: no upload, nothing deleted
C4_Witness ==
    /\ pp_pc = "done"
    /\ pp_processor = "dnsenum"
    /\ fs_files = {}
    /\ pp_uploads = <<>>
    /\ ~pp_deleted
    /\ fs_dirs = {"/app/outputs/s1/dnsenum"}

-----------------------------------------------------------------------------
(* Properties of execute_command *)

ExecDone == ex_pc = "done"

ExecOutputDir == "/app/outputs/s1/" \o ex_tool

\* the elements of a list
Elements(q) == {q[i] : i \in 1..Len(q)}

\* text holds marker m, letter case aside
ContainsCI(text, m) ==
    \E i \in 1..(Len(text) - Len(m) + 1) :
        \A j \in 1..Len(m) : LowerChar(CharAt(text, i + j - 1)) = CharAt(m, j)

\* the call met one of the failures: the output directory could not be made,
\* the process could not be spawned, a capture file could not be written (in
\* the timeout handler too), the vector holds a token that is not a string
ExecutionFailed ==
    \/ ex_env.fault \in {"mkdir", "stdout", "stderr", "handler"}
    \/ ex_env.spawn = "error"
    \/ \E i \in 1..Len(ex_command) : ex_command[i] = None

\* C5: execute_command never raises; it returns a ToolOutput, and on each of
\* these failures one with return_code = -1 and success = False.
C5_NeverRaises ==
    ExecDone =>
        /\ ex_outcome = "returned"
        /\ ExecutionFailed => (ex_result.return_code = -1 /\ ~ex_result.success)

\* what C5 asks holds of every call that does return
C5_FailedResultWhenReturned ==
    (ExecDone /\ ex_outcome = "returned" /\ ExecutionFailed)
        => (ex_result.return_code = -1 /\ ~ex_result.success)

\* C6: when the process exceeds the timeout, execute_command returns a result
\* with return_code = -1, success = False and a non-empty stderr that tells of
\* the timeout, whatever the tool and whatever it had printed.
C6_TimeoutResult ==
    (ExecDone /\ ex_env.spawn = "timeout") =>
        /\ ex_outcome = "returned"
        /\ ex_result.return_code = -1
        /\ ~ex_result.success
        /\ ex_result.stderr # ""
        /\ ContainsCI(ex_result.stderr, "timed out")

\* the result of a timeout is as C6 says whenever one is returned
C6_TimeoutResultWhenReturned ==
    (ExecDone /\ ex_env.spawn = "timeout" /\ ex_outcome = "returned") =>
        /\ ex_result.return_code = -1
        /\ ~ex_result.success
        /\ ex_result.stderr = "Command timed out after 3600 seconds."

\* C7: the artifact list of every returned result holds output.stdout,
\* output.stderr and every other regular file of the tool's output directory.
C7_ArtifactsListed ==
    (ExecDone /\ ex_outcome = "returned") =>
        /\ (ExecOutputDir \o "/output.stdout") \in Elements(ex_result.output_file_paths)
        /\ (ExecOutputDir \o "/output.stderr") \in Elements(ex_result.output_file_paths)
        /\ \A f \in fs_files :
              dirname(f) = ExecOutputDir => f \in Elements(ex_result.output_file_paths)

\* on the normal path the list is complete
C7_ArtifactsListedOnNormalPath ==
    (ExecDone /\ ex_outcome = "returned" /\ ex_env.spawn = "completed"
             /\ ex_env.fault \notin {"stdout", "stderr"}) =>
        /\ (ExecOutputDir \o "/output.stdout") \in Elements(ex_result.output_file_paths)
        /\ (ExecOutputDir \o "/output.stderr") \in Elements(ex_result.output_file_paths)
        /\ \A f \in fs_files :
              dirname(f) = ExecOutputDir => f \in Elements(ex_result.output_file_paths)

\* C8: after a run that did not time out, for the path named after the tool's
\* output flag (wherever in the vector, other write-to-file flags before it or
\* not): the full stdout is written to it if and only if the tool left no
\* file there and stdout is not empty.
C8_FallbackWritesNamedFile ==
    (ExecDone /\ ex_env.spawn = "completed" /\ ex_env.fault = "none") =>
        \A i \in 1..(Len(ex_command) - 1) :
            ex_command[i] = OwnOutputFlag(ex_tool) =>
                (([path |-> ex_command[i + 1], data |-> ex_env.stdout] \in Elements(ex_writes))
                    <=> (ex_command[i + 1] \notin ex_env.tool_files /\ ex_env.stdout # ""))

\* the fallback serves the first write-to-file flag of the vector
C8_FallbackWritesFirstNamedFile ==
    [][(ex_pc = "ready" /\ ex_pc' = "done" /\ ex_env'.spawn = "completed" /\ ex_env'.fault = "none") =>
          \A i \in 1..(Len(ex_command) - 1) :
              (/\ ex_command[i] \in {"-o", "-oA", "-oG", "-oJ", "-oN", "-oX", "-f", "--log-brief"}
               /\ \A j \in 1..(i - 1) :
                      ex_command[j] \notin {"-o", "-oA", "-oG", "-oJ", "-oN", "-oX", "-f", "--log-brief"})
              => (([path |-> ex_command[i + 1], data |-> ex_env'.stdout] \in Elements(ex_writes'))
                      <=> (/\ ex_command[i + 1] \notin ex_env'.tool_files
                           /\ ex_command[i + 1] \notin fs_files
                           /\ ex_env'.stdout # ""))
       ]_vars

\* the markers of the default family, as the claim lists them
HasErrorMarker(text) ==
    \E m \in {"invalid module", "invalid option", "invalid command", "error",
              "traceback", "no such file", "not found", "[!]", "fail",
              "module not found"} : ContainsCI(text, m)

\* C9: for nmap, masscan, amass, subfinder, gobuster and whatweb, a run that
\* did not time out has success = True if and only if return_code = 0 and
\* neither stdout nor stderr holds an error marker, letter case aside.
C9_DefaultFamilyRule ==
    (/\ ExecDone /\ ex_outcome = "returned" /\ ex_env.spawn # "timeout"
     /\ ex_tool \in {"nmap", "masscan", "amass", "subfinder", "gobuster", "whatweb"})
    => (ex_result.success <=>
            /\ ex_result.return_code = 0
            /\ ~HasErrorMarker(ex_env.stdout)
            /\ ~HasErrorMarker(ex_env.stderr))

\* nmap exited 0 with stderr "Error: invalid option" and is classified failed
C9_Witness ==
    /\ ExecDone
    /\ ex_outcome = "returned"
    /\ ex_tool = "nmap"
    /\ ex_env.spawn = "completed"
    /\ ex_result.return_code = 0
    /\ ex_env.stdout = "80/tcp open http"
    /\ ex_result.stderr = "Error: invalid option"
    /\ ~ex_result.success

\* nmap exited 0 with an empty stderr and is classified successful
C9_WitnessSuccess ==
    /\ ExecDone
    /\ ex_outcome = "returned"
    /\ ex_tool = "nmap"
    /\ ex_result.return_code = 0
    /\ ex_result.stderr = ""
    /\ ex_result.success

\* C10: for dnsenum, a classified run with "can't locate" in stderr fails
\* whatever the return code; any other succeeds if and only if return_code = 0
\* or stderr holds one of "query failed", "noerror", "lame server"; stdout
\* plays no part.
C10_DnsenumRule ==
    (/\ ExecDone /\ ex_outcome = "returned" /\ ex_env.spawn = "completed"
     /\ ex_env.fault \notin {"stdout", "stderr"}
     /\ ex_tool = "dnsenum")
    => IF ContainsCI(ex_env.stderr, "can't locate")
       THEN ~ex_result.success
       ELSE ex_result.success <=>
                \/ ex_result.return_code = 0
                \/ /\ ex_result.return_code # 0
                   /\ \E b \in {"query failed", "noerror", "lame server"} :
                         ContainsCI(ex_env.stderr, b)

\* dnsenum exited 1 on "query failed for x", with error markers in stdout,
\* and is classified successful
C10_Witness ==
    /\ ExecDone
    /\ ex_outcome = "returned"
    /\ ex_tool = "dnsenum"
    /\ ex_result.return_code = 1
    /\ ex_result.stderr = "query failed for x"
    /\ ex_result.stdout = "[!] partial results"
    /\ ex_result.success

\* dnsenum exited 0 with "Can't Locate" and a benign marker in stderr and is
\* classified failed
C10_WitnessCantLocate ==
    /\ ExecDone
    /\ ex_outcome = "returned"
    /\ ex_tool = "dnsenum"
    /\ ex_result.return_code = 0
    /\ ex_result.stderr = "Can't Locate Net/DNS.pm: NOERROR"
    /\ ~ex_result.success

\* C11: for recon-ng, dirsearch and theHarvester (the name compared without
\* regard to letter case), a run that did not time out has success = True if
\* and only if return_code = 0 and stderr holds neither "error" nor
\* "traceback", letter case aside; stdout plays no part.
C11_StrictFamilyRule ==
    (/\ ExecDone /\ ex_outcome = "returned" /\ ex_env.spawn # "timeout"
     /\ ex_tool \in {"recon-ng", "dirsearch", "theHarvester"})
    => (ex_result.success <=>
            /\ ex_result.return_code = 0
            /\ ~ContainsCI(ex_env.stderr, "error")
            /\ ~ContainsCI(ex_env.stderr, "traceback"))

\* recon-ng exited 0 with a traceback on stderr and is classified failed
C11_Witness ==
    /\ ExecDone
    /\ ex_outcome = "returned"
    /\ ex_tool = "recon-ng"
    /\ ex_env.spawn = "completed"
    /\ ex_result.return_code = 0
    /\ ex_result.stderr = "Traceback (most recent call last)"
    /\ ~ex_result.success

\* theHarvester exited 0 with error markers of the default family in stdout
\* and none in stderr, and is classified successful
C11_WitnessStdoutIgnored ==
    /\ ExecDone
    /\ ex_outcome = "returned"
    /\ ex_tool = "theHarvester"
    /\ ex_result.return_code = 0
    /\ ex_result.stdout = "Host NOT FOUND"
    /\ ex_result.stderr = "warning: slow link"
    /\ ex_result.success

-----------------------------------------------------------------------------
(* Properties of the builders *)

BuildDone == bd_pc = "done"

\* the builder returned a vector
BuildReturned == BuildDone /\ ~bd_result.raised

Count(x, cmd) == Cardinality({i \in 1..Len(cmd) : cmd[i] = x})

AdjacentPair(a, b, cmd) == \E i \in 1..(Len(cmd) - 1) : cmd[i] = a /\ cmd[i + 1] = b

\* the flags of each tool that name the file its result is written to
RecognizedOutputFlags(tool) ==
    CASE tool = "nmap" -> {"-oX", "-oN", "-oA"}
      [] tool = "masscan" -> {"-oJ"}
      [] tool = "amass" -> {"-o"}
      [] tool = "subfinder" -> {"-oJ"}
      [] tool = "theHarvester" -> {"-f"}
      [] tool = "gobuster" -> {"-o"}
      [] tool = "dirsearch" -> {"-o"}
      [] tool = "whatweb" -> {"--log-brief"}
      [] tool = "dnsenum" -> {"-o"}
      [] OTHER -> {}

\* the default output flag of each tool and the canonical file name
DefaultOutput(tool) ==
    CASE tool = "nmap" -> <<"-oX", "nmap_scan.xml">>
      [] tool = "masscan" -> <<"-oJ", "masscan_scan.json">>
      [] tool = "amass" -> <<"-o", "amass_scan.txt">>
      [] tool = "subfinder" -> <<"-oJ", "subfinder_scan.json">>
      [] tool = "theHarvester" -> <<"-f", "theharvester_scan.html">>
      [] tool = "gobuster" -> <<"-o", "gobuster_scan.txt">>
      [] tool = "dirsearch" -> <<"-o", "dirsearch_scan.txt">>
      [] tool = "whatweb" -> <<"--log-brief", "whatweb_scan.txt">>
      [] tool = "dnsenum" -> <<"-o", "dnsenum_scan.xml">>

FlagsSupplied == {bd_parameters[i].flag : i \in 1..Len(bd_parameters)}

OutputFlagTokens ==
    {i \in 1..Len(bd_result.cmd) : bd_result.cmd[i] \in RecognizedOutputFlags(bd_tool)}

\* C12: the vector a builder with an output flag returns holds exactly one
\* output-capturing flag, whatever output flags the caller supplied; when the
\* caller supplied none it is the tool's default flag followed by the
\* canonical file inside /app/outputs/<scan_id>/<tool_name>/.
C12_ExactlyOneOutputFlag ==
    (BuildReturned /\ bd_tool # "recon-ng")
    => /\ Cardinality(OutputFlagTokens) = 1
       /\ (FlagsSupplied \cap RecognizedOutputFlags(bd_tool) = {})
          => AdjacentPair(DefaultOutput(bd_tool)[1],
                          "/app/outputs/s1/" \o bd_tool \o "/" \o DefaultOutput(bd_tool)[2],
                          bd_result.cmd)

\* with no output flag supplied every builder gives exactly its default pair
C12_DefaultOutputWhenNoneSupplied ==
    (BuildReturned /\ bd_tool # "recon-ng"
     /\ FlagsSupplied \cap RecognizedOutputFlags(bd_tool) = {})
    => /\ Cardinality(OutputFlagTokens) = 1
       /\ AdjacentPair(DefaultOutput(bd_tool)[1],
                       "/app/outputs/s1/" \o bd_tool \o "/" \o DefaultOutput(bd_tool)[2],
                       bd_result.cmd)

\* an option of each tool that its builder gives no meaning of its own
OrdinaryFlag(tool) ==
    CASE tool = "nmap" -> "-sV"
      [] tool = "masscan" -> "--rate"
      [] tool = "amass" -> "-passive"
      [] tool = "subfinder" -> "-all"
      [] tool = "theHarvester" -> "-b"
      [] tool = "recon-ng" -> "-x"
      [] tool = "gobuster" -> "-t"
      [] tool = "dirsearch" -> "-t"
      [] tool = "whatweb" -> "-a"
      [] tool = "dnsenum" -> "--threads"

\* the values of the parameters that carry the flag f
ValuesOf(f) == {bd_parameters[i].value : i \in {j \in 1..Len(bd_parameters) : bd_parameters[j].flag = f}}

\* C13: a parameter's flag is emitted as the pair [flag, value] when it carries
\* a value, as a bare token when it is boolean-true, and not at all when its
\* value is falsy or absent (None, "", "false", False).
C13_FalsyValueNotEmitted ==
    BuildReturned
    => LET f == OrdinaryFlag(bd_tool)
           vs == ValuesOf(f)
       IN /\ (vs # {} /\ vs \subseteq {None, "", "false", PyFalse})
             => ~in_cmd(f, bd_result.cmd)
          /\ vs = {"5"} => AdjacentPair(f, "5", bd_result.cmd)
          /\ (vs # {} /\ vs \subseteq {"true", PyTrue}) => in_cmd(f, bd_result.cmd)

\* the positional sentinels of each tool
Sentinels(tool) ==
    CASE tool \in {"nmap", "whatweb"} -> {"<target>"}
      [] tool = "gobuster" -> {"mode"}
      [] tool = "dnsenum" -> {"<domain>"}
      [] tool = "amass" -> {"enum", "intel"}
      [] OTHER -> {}

\* C14: a parameter whose flag is empty or missing, or is the tool's
\* positional sentinel, contributes no token to the returned vector: the
\* sentinel is no token of it, and an empty or missing flag is no token of it
\* (no value in the list being empty, and gobuster's mode being given).
C14_NoTokenForEmptyOrSentinelFlag ==
    BuildReturned
    => /\ \A s \in Sentinels(bd_tool) \ {"enum"} : ~in_cmd(s, bd_result.cmd)
       /\ ("" \notin {bd_parameters[i].value : i \in 1..Len(bd_parameters)})
          => ~in_cmd("", bd_result.cmd)
       /\ bd_tool # "gobuster" => ~in_cmd(None, bd_result.cmd)

\* C15: the returned vector is a sequence of strings whose first token is the
\* tool's binary name.
C15_VectorOfStrings ==
    BuildReturned
    => /\ Len(bd_result.cmd) >= 1
       /\ bd_result.cmd[1] = lower(bd_tool)
       /\ \A i \in 1..Len(bd_result.cmd) : is_str(bd_result.cmd[i])

\* the first token is the binary name whenever a vector is returned
C15_FirstTokenIsBinary ==
    BuildReturned => Len(bd_result.cmd) >= 1 /\ bd_result.cmd[1] = lower(bd_tool)

\* the boolean pointer flag of each tool, the flag emitted for it and the path
PointerFlag(tool) ==
    CASE tool = "amass" -> <<"-rf", "-rf", "/app/wordlists/subdomains-top1million-5000.txt">>
      [] tool = "subfinder" -> <<"-dL", "-dL", "/app/target_lists/domains.txt">>
      [] tool = "gobuster" -> <<"-w", "-w", "/app/wordlists/common.txt">>
      [] tool = "dirsearch" -> <<"-w", "-w", "/app/wordlists/directory-list-2.3-small.txt">>
      [] tool = "dnsenum" -> <<"--file", "-f", "/app/wordlists/subdomains-top1million-5000.txt">>

\* the builder is called with the pointer parameter alone, its value true
PointerCall ==
    /\ BuildDone
    /\ bd_env.mkdir = "ok"
    /\ bd_tool \in {"amass", "subfinder", "gobuster", "dirsearch", "dnsenum"}
    /\ Len(bd_parameters) = 1
    /\ bd_parameters[1].flag = PointerFlag(bd_tool)[1]
    /\ is_true(bd_parameters[1].value)

\* C16: a boolean-true pointer parameter makes the builder return a vector
\* holding the flag followed by the hardcoded path (subfinder's without
\* -d <target>), and the literal value is never the flag's argument.
C16_PointerResolved ==
    PointerCall
    => /\ ~bd_result.raised
       /\ AdjacentPair(PointerFlag(bd_tool)[2], PointerFlag(bd_tool)[3], bd_result.cmd)
       /\ bd_tool = "subfinder" => ~in_cmd("-d", bd_result.cmd)
       /\ \A v \in {"true", "True", PyTrue} :
             ~AdjacentPair(PointerFlag(bd_tool)[2], v, bd_result.cmd)

\* every builder but subfinder's resolves its pointer
C16_PointerResolvedButSubfinder ==
    (PointerCall /\ bd_tool # "subfinder")
    => /\ ~bd_result.raised
       /\ AdjacentPair(PointerFlag(bd_tool)[2], PointerFlag(bd_tool)[3], bd_result.cmd)
       /\ \A v \in {"true", "True", PyTrue} :
             ~AdjacentPair(PointerFlag(bd_tool)[2], v, bd_result.cmd)

\* C17: a parameter that occurs once, with requiresValue = false and a value
\* True or "true", is exactly one token of the returned vector and the token
\* after it is not its value.
C17_BooleanFlagBareOnce ==
    BuildReturned
    => \A i \in 1..Len(bd_parameters) :
          LET p == bd_parameters[i] IN
          (/\ ~falsy(p.flag) /\ p.flag \notin Sentinels(bd_tool)
           /\ ~p.requiresValue /\ is_true(p.value)
           /\ \A j \in 1..Len(bd_parameters) : j # i => bd_parameters[j].flag # p.flag)
          => /\ Count(p.flag, bd_result.cmd) = 1
             /\ \A v \in {"true", "True", PyTrue, "http://true"} :
                   ~AdjacentPair(p.flag, v, bd_result.cmd)

\* a call of recon-ng's builder that got past os.makedirs(output_dir)
ReconNgBuilt == BuildDone /\ lower(bd_tool) = "recon-ng" /\ bd_env.mkdir = "ok"

TemplateAbsent == template_path \notin fs_files

TemplateMissingError ==
    bd_result.raised /\ bd_result.msg = "Recon-ng template file not found."

ScriptRenderError ==
    /\ bd_result.raised
    /\ Len(bd_result.msg) >= 32
    /\ SubSeq(bd_result.msg, 1, 32) = "Failed to create recon-ng script"

ReconNgSucceeded ==
    /\ ~bd_result.raised
    /\ bd_result.cmd = <<"recon-ng", "-r", "/app/outputs/s1/" \o bd_tool \o "/workflow.rc">>
    /\ "/app/outputs/s1/" \o bd_tool \o "/workflow.rc" \in fs_files
    /\ \A ph \in {"{{ workspace }}", "{{ domain }}", "{{ output_file }}"} :
          ~contains(bd_result.script, ph)

\* C20: recon-ng's builder fails with the template-missing error when and only
\* when the template file is absent, with the script-render error on any
\* other failure of reading the template or writing workflow.rc, and
\* otherwise returns <<"recon-ng", "-r", <output_dir>/workflow.rc>> with every
\* placeholder of the script substituted.
C20_ReconNgBuilderErrors ==
    ReconNgBuilt
    => /\ TemplateAbsent <=> TemplateMissingError
       /\ (~TemplateAbsent /\ (bd_env.template # "ok" \/ bd_env.write # "ok"))
          => ScriptRenderError
       /\ ~bd_result.raised => ReconNgSucceeded

\* the same, for calls in which the output directory is still there when
\* workflow.rc is written
C20_ReconNgBuilderErrorsDirectoryKept ==
    (ReconNgBuilt /\ bd_env.write # "missing_dir")
    => /\ TemplateAbsent <=> TemplateMissingError
       /\ (~TemplateAbsent /\ (bd_env.template # "ok" \/ bd_env.write # "ok"))
          => ScriptRenderError
       /\ ~bd_result.raised => ReconNgSucceeded

-----------------------------------------------------------------------------
(* Properties of the orchestration loops *)

ScanEnded == sc_pc \in {"returned", "raised"}

\* an exception left the for loop
LoopAborted == sc_pc = "raised" /\ sc_i <= Len(sc_tools)

LogEvents(i) == {k \in 1..Len(sc_log) : sc_log[k].i = i}

\* the lookup, the builder or execute_command raised for tool i
ToolFailed(i) ==
    \E k \in LogEvents(i) :
        sc_log[k].ev = "caught" /\ sc_log[k].arg \in {"lookup", "build", "execute"}

\* tool i has the failed per-tool result
HasFailedResult(i) ==
    \E k \in 1..Len(sc_results) :
        /\ sc_results[k].i = i
        /\ sc_results[k].out.tool_name = sc_tools[i].name
        /\ sc_results[k].out.return_code = -1
        /\ ~sc_results[k].out.success
        /\ sc_results[k].out.command = <<>>

\* the loop came to tool i: it was built and executed, unless a step of its
\* own pass raised and was caught
ToolWasRun(i) ==
    \/ \E k \in LogEvents(i) : sc_log[k].ev = "caught"
    \/ /\ \E k \in LogEvents(i) : sc_log[k].ev = "build"
       /\ \E k \in LogEvents(i) : sc_log[k].ev = "execute"

\* no status report of the scan raised
CallbacksReturned ==
    \A k \in 1..Len(sc_log) :
        sc_log[k].ev = "caught" => sc_log[k].arg # "callback"

\* C18: a tool whose builder lookup, builder or execution raised gets the
\* failed per-tool result (return_code -1, success False, empty command), no
\* exception leaves the loop, and at the end of the scan every later tool has
\* been built and executed (or has failed in its own pass).
C18_ToolFailureIsolated ==
    /\ LoopAborted => ~ToolFailed(sc_i)
    /\ \A i \in 1..Len(sc_tools) :
          ToolFailed(i)
          => /\ HasFailedResult(i)
             /\ ScanEnded => \A j \in (i + 1)..Len(sc_tools) : ToolWasRun(j)

\* the same in the Flask handler, which reports no status
C18_ToolFailureIsolatedInFlask ==
    sc_entry = "flask"
    => /\ LoopAborted => ~ToolFailed(sc_i)
       /\ \A i \in 1..Len(sc_tools) :
             ToolFailed(i)
             => /\ HasFailedResult(i)
                /\ ScanEnded => \A j \in (i + 1)..Len(sc_tools) : ToolWasRun(j)

\* the same in execute_scan_logic as long as no exception has left the loop,
\* which only a raising 'failed' report makes happen
C18_ToolFailureIsolatedWhenReported ==
    (sc_entry = "tasks" /\ ~LoopAborted)
    => \A i \in 1..Len(sc_tools) :
          ToolFailed(i)
          => /\ HasFailedResult(i)
             /\ ScanEnded => \A j \in (i + 1)..Len(sc_tools) : ToolWasRun(j)

\* execute_command returned for tool i
ToolExecuted(i) ==
    \E k \in 1..Len(sc_results) : sc_results[k].i = i /\ sc_results[k].out.command # <<>>

\* C19: once execute_command has returned for a tool, the orchestrator has a
\* post-processor run on that tool's output directory before the scan goes on:
\* at the end of a scan in which a tool was executed, a post-processor has run.
C19_PostProcessorInvoked ==
    (ScanEnded /\ \E i \in 1..Len(sc_tools) : ToolExecuted(i))
    => pp_pc = "done"

\* C21: whatever execute_command writes for a vector a builder gave (the two
\* capture files and the fallback copy of stdout) lies inside the tool's own
\* output directory.
C21_FallbackWriteInsideOutputDir ==
    ExecDone => \A k \in 1..Len(ex_writes) : Under(ex_writes[k].path, ExecOutputDir)

\* it does whenever the first write-to-file flag of the vector is followed
\* by a path of the output directory
C21_FallbackWriteInsideWhenFirstFlagIsInside ==
    (ExecDone /\ shlex_join_ok(ex_command)
        /\ Under(expected_output_file(ex_command), ExecOutputDir))
    => \A k \in 1..Len(ex_writes) : Under(ex_writes[k].path, ExecOutputDir)


-----------------------------------------------------------------------------
(* From the builder to the post-processor: the tool writes the file its     *)
(* vector names and the tool's post-processor is run on the output directory *)

\* the paths the vector names after an output flag of the tool (recon-ng: the
\* report its script is rendered with)
named_output_files(tool_name, built) ==
    IF lower(tool_name) = "recon-ng"
    THEN {path_join(OutputDir(ScanId, tool_name), "report.html")}
    ELSE {built.cmd[i + 1] : i \in {j \in 1..(Len(built.cmd) - 1) :
                                      built.cmd[j] \in RecognizedOutputFlags(tool_name)}}

\* the tool runs and writes exactly one file its vector names; the
\* post-processor registered for the tool is then due, with that file listed
ToolWritesNamedFile ==
    /\ bd_pc = "done"
    /\ ~bd_result.raised
    /\ pp_pc = "off"
    /\ \A i \in 1..Len(bd_result.cmd) : is_str(bd_result.cmd[i])
    /\ \E f \in named_output_files(bd_tool, bd_result) :
          /\ fs_files' = fs_files \cup {f}
          /\ fs_dirs' = fs_dirs \cup makedirs(dirname(f))
          /\ pp_output_files' = <<f>>
    /\ pp_pc' = "ready"
    /\ pp_tool' = bd_tool
    /\ UNCHANGED <<pp_processor, pp_uploads, pp_deleted>>
    /\ UNCHANGED <<ex_vars, bd_vars, sc_vars, ar_vars>>

InitArtifact == InitBuild

NextArtifact ==
    \/ BuildNmap
    \/ BuildMasscan
    \/ BuildAmass
    \/ BuildSubfinder
    \/ BuildTheHarvester
    \/ BuildReconNg
    \/ BuildGobuster
    \/ BuildDirsearch
    \/ BuildWhatweb
    \/ BuildDnsenum
    \/ ToolWritesNamedFile
    \/ PostProcessMasscan
    \/ PostProcessAmass
    \/ PostProcessSubfinder
    \/ PostProcessTheHarvester
    \/ PostProcessReconNg
    \/ PostProcessGobuster
    \/ PostProcessDirsearch
    \/ PostProcessWhatweb
    \/ PostProcessNmap
    \/ PostProcessDnsenum

SpecArtifact == InitArtifact /\ [][NextArtifact]_vars

\* the processor has run on the directory of the tool that was built
ArtifactProcessed == bd_pc = "done" /\ pp_pc = "done"

\* an upload of p was attempted
UploadAttempted(p) == \E k \in 1..Len(pp_uploads) : pp_uploads[k].src = p

\* C22: the file a builder names after the tool's output flag is the file the
\* tool's post-processor looks for: when the tool wrote exactly that file, the
\* processor uploads it, for the default output flag and for an output flag
\* the caller supplied.
C22_NamedFileIsUploaded ==
    ArtifactProcessed => \A k \in 1..Len(pp_output_files) : UploadAttempted(pp_output_files[k])

\* it is for the default output flag of every tool but theHarvester
C22_DefaultFileIsUploaded ==
    (ArtifactProcessed /\ bd_tool # "theHarvester"
        /\ FlagsSupplied \cap RecognizedOutputFlags(bd_tool) = {})
    => \A k \in 1..Len(pp_output_files) : UploadAttempted(pp_output_files[k])


\* the results list holds one result per requested tool, in request order
OneResultPerTool ==
    /\ Len(sc_results) = Len(sc_tools)
    /\ \A k \in 1..Len(sc_results) :
          sc_results[k].i = k /\ sc_results[k].out.tool_name = sc_tools[k].name

\* the 'completed' report of tool i raised
CompletedReportRaised(i) ==
    /\ \E k \in LogEvents(i) : sc_log[k].ev = "status" /\ sc_log[k].arg = "completed"
    /\ \E k \in LogEvents(i) : sc_log[k].ev = "caught" /\ sc_log[k].arg = "callback"

\* C23: execute_scan_logic comes to the end of its loop whatever the builders,
\* the executions and the status reports do, and when it has completed its
\* results list holds exactly one ToolOutput per requested tool, in request
\* order.
C23_OneResultPerTool ==
    sc_entry = "tasks"
    => /\ ~LoopAborted
       /\ sc_pc = "returned" => OneResultPerTool

\* it does when no 'completed' report raised
C23_OneResultPerToolWhenCompletedReported ==
    (sc_entry = "tasks" /\ sc_pc = "returned"
        /\ \A i \in 1..Len(sc_tools) : ~CompletedReportRaised(i))
    => OneResultPerTool

\* a raising 'completed' report leaves two results for its tool
C23_CompletedReportDuplicates ==
    (sc_entry = "tasks" /\ sc_pc = "returned")
    => \A i \in 1..Len(sc_tools) :
          CompletedReportRaised(i)
          => Cardinality({k \in 1..Len(sc_results) : sc_results[k].i = i}) = 2


\* the reports of 'completed' or 'failed' made for tool i
TerminalReports(i) ==
    {k \in LogEvents(i) : sc_log[k].ev = "status" /\ sc_log[k].arg \in {"completed", "failed"}}

\* the loop is through with tool i
PassDone(i) == i < sc_i \/ ScanEnded

\* what the loop did for a tool starts with the 'running' report, and the
\* calls made for tool i all precede those made for tool i + 1
RunningFirstAndInOrder ==
    /\ \A k \in 1..Len(sc_log) : \A n \in (k + 1)..Len(sc_log) : sc_log[k].i <= sc_log[n].i
    /\ \A i \in 1..Len(sc_tools) :
          LogEvents(i) # {}
          => \E k \in LogEvents(i) :
                /\ sc_log[k] = Event("status", i, "running")
                /\ \A n \in LogEvents(i) : k <= n

\* tool i has exactly one report of 'completed' or 'failed', made after its
\* lookup, build and execution
OneTerminalReport(i) ==
    /\ Cardinality(TerminalReports(i)) = 1
    /\ \A k \in TerminalReports(i) :
          \A n \in LogEvents(i) : sc_log[n].ev \in {"lookup", "build", "execute"} => n < k

\* C24: in execute_scan_logic each requested tool is reported 'running' before
\* it is built or executed, then exactly one of 'completed' or 'failed' after
\* its execution, and the reports of tool i all precede those of tool i + 1.
C24_StatusReportOrder ==
    sc_entry = "tasks"
    => /\ RunningFirstAndInOrder
       /\ \A i \in 1..Len(sc_tools) : PassDone(i) => OneTerminalReport(i)

\* it is so as long as no 'completed' report raised and no exception left the loop
C24_StatusReportOrderWhenReportsReturn ==
    (sc_entry = "tasks" /\ ~LoopAborted /\ \A i \in 1..Len(sc_tools) : ~CompletedReportRaised(i))
    => /\ RunningFirstAndInOrder
       /\ \A i \in 1..Len(sc_tools) : PassDone(i) => OneTerminalReport(i)

\* the 'running' report and the order of the tools hold on every run
C24_RunningFirstAndInOrder ==
    sc_entry = "tasks" => RunningFirstAndInOrder


\* status was reported for tool i
Reported(i, status) == \E k \in LogEvents(i) : sc_log[k] = Event("status", i, status)

\* the results recorded for tool i
ResultsOf(i) == {k \in 1..Len(sc_results) : sc_results[k].i = i}

\* C25: in execute_scan_logic 'completed' is reported only for a tool whose
\* ToolOutput has success = True, and 'failed' is reported for every tool whose
\* ToolOutput has success = False (a timeout, a spawn failure or a run the
\* success heuristics classify as failed included).
C25_TerminalStatusAgreesWithResult ==
    sc_entry = "tasks"
    => \A i \in 1..Len(sc_tools) :
          /\ Reported(i, "completed") => \A k \in ResultsOf(i) : sc_results[k].out.success
          /\ (\E k \in ResultsOf(i) : ~sc_results[k].out.success) => Reported(i, "failed")

\* 'completed' is reported exactly for the tools execute_command returned a
\* result for, whatever its success
C25_CompletedMeansReturned ==
    sc_entry = "tasks"
    => \A i \in 1..Len(sc_tools) :
          PassDone(i) /\ ~LoopAborted => (Reported(i, "completed") <=> ToolExecuted(i))


-----------------------------------------------------------------------------
(* The Argo worker: main() and publish_to_pubsub of argo_run_scan.py        *)

\* default of the parameter max_retries
DefaultMaxRetries == 5

\* base_delay_seconds
BaseDelaySeconds == 1

\* an entry of the worker's log: a call it made and how the call ended
ArgoEvent(ev, arg, out) == [ev |-> ev, arg |-> arg, out |-> out]

\* how requests.post / raise_for_status can end: "request_error" is a
\* requests.exceptions.RequestException, "raise" any other exception
PostOutcomes == {"ok", "request_error", "raise"}

\* update_scan_status(scan_id, status): a RequestException is logged and
\* swallowed, any other exception propagates
update_scan_status(status, post) ==
    [event |-> ArgoEvent("scan_status", status, post), raised |-> post = "raise"]

\* the delay before the next attempt, the jitter of less than a second aside
retry_delay(attempt) == BaseDelaySeconds * 2 ^ attempt

\* waits after the last attempt as well
after_attempt_Mutant(attempt, max_retries, out) ==
    IF out = "ok" THEN "return" ELSE "sleep"

\* the body of the retry loop once publish / future.result has ended with out
after_attempt(attempt, max_retries, out) ==
    IF out = "ok" THEN "return"
    ELSE IF attempt = max_retries - 1 THEN "return"
    ELSE "sleep"

\* where control is once publish_to_pubsub has returned: main goes on to
\* sys.exit(0)
after_publish == IF ar_entry = "main" THEN "exit_ok" ELSE "returned"

\* sys.exit(code), not caught by  except Exception
Exit(code) ==
    /\ ar_pc' = "exited"
    /\ ar_code' = code

\* main, lines 108-120: the environment variables are read
ArgoReadEnv ==
    /\ ar_pc = "start"
    /\ \E present \in BOOLEAN :
          IF present THEN ar_pc' = "parse" /\ UNCHANGED ar_code ELSE Exit(1)
    /\ UNCHANGED <<ar_entry, ar_max_retries, ar_attempt, ar_log>>
    /\ UNCHANGED <<fs_vars, pp_vars, ex_vars, bd_vars, sc_vars>>

\* main, lines 124-135: RECON_TOOLS_PAYLOAD_JSON is parsed
ArgoParseTools ==
    /\ ar_pc = "parse"
    /\ \E valid \in BOOLEAN :
          IF valid THEN ar_pc' = "report_running" /\ UNCHANGED ar_code ELSE Exit(1)
    /\ UNCHANGED <<ar_entry, ar_max_retries, ar_attempt, ar_log>>
    /\ UNCHANGED <<fs_vars, pp_vars, ex_vars, bd_vars, sc_vars>>

\* main, line 138: update_scan_status(scan_id, "recon_running")
ArgoReportRunning ==
    /\ ar_pc = "report_running"
    /\ \E post \in PostOutcomes :
          /\ ar_log' = Append(ar_log, update_scan_status("recon_running", post).event)
          /\ ar_pc' = IF update_scan_status("recon_running", post).raised
                      THEN "handler" ELSE "scan_logic"
    /\ UNCHANGED <<ar_entry, ar_max_retries, ar_attempt, ar_code>>
    /\ UNCHANGED <<fs_vars, pp_vars, ex_vars, bd_vars, sc_vars>>

\* main, line 144: execute_scan_logic returns or re-raises
ArgoScanLogic ==
    /\ ar_pc = "scan_logic"
    /\ \E out \in {"returned", "raised"} :
          /\ ar_log' = Append(ar_log, ArgoEvent("scan_logic", "", out))
          /\ ar_pc' = IF out = "raised" THEN "handler" ELSE "upload"
    /\ UNCHANGED <<ar_entry, ar_max_retries, ar_attempt, ar_code>>
    /\ UNCHANGED <<fs_vars, pp_vars, ex_vars, bd_vars, sc_vars>>

\* main, line 148: upload_to_gcs, which calls sys.exit(1) when the upload fails
ArgoUpload ==
    /\ ar_pc = "upload"
    /\ \E out \in {"ok", "failed"} :
          /\ ar_log' = Append(ar_log, ArgoEvent("upload", "vulnr-payload.json", out))
          /\ IF out = "failed" THEN Exit(1)
             ELSE ar_pc' = "report_complete" /\ UNCHANGED ar_code
    /\ UNCHANGED <<ar_entry, ar_max_retries, ar_attempt>>
    /\ UNCHANGED <<fs_vars, pp_vars, ex_vars, bd_vars, sc_vars>>

\* main, line 151: update_scan_status(scan_id, "recon_complete")
ArgoReportComplete ==
    /\ ar_pc = "report_complete"
    /\ \E post \in PostOutcomes :
          /\ ar_log' = Append(ar_log, update_scan_status("recon_complete", post).event)
          /\ ar_pc' = IF update_scan_status("recon_complete", post).raised
                      THEN "handler" ELSE "publish_client"
    /\ UNCHANGED <<ar_entry, ar_max_retries, ar_attempt, ar_code>>
    /\ UNCHANGED <<fs_vars, pp_vars, ex_vars, bd_vars, sc_vars>>

\* publish_to_pubsub, lines 74-87: the publisher client and the message are
\* made, outside any try, and the loop is entered
PublishClient ==
    /\ ar_pc = "publish_client"
    /\ \E out \in {"ok", "raise"} :
          /\ ar_log' = Append(ar_log, ArgoEvent("client", "", out))
          /\ ar_pc' = IF out = "raise"
                      THEN (IF ar_entry = "main" THEN "handler" ELSE "raised")
                      ELSE IF 0 < ar_max_retries THEN "publish" ELSE after_publish
    /\ ar_attempt' = 0
    /\ UNCHANGED <<ar_entry, ar_max_retries, ar_code>>
    /\ UNCHANGED <<fs_vars, pp_vars, ex_vars, bd_vars, sc_vars>>

\* publish_to_pubsub, lines 88-98: one attempt
PublishAttempt ==
    /\ ar_pc = "publish"
    /\ ar_attempt < ar_max_retries
    /\ \E out \in {"ok", "failed"} :
          /\ ar_log' = Append(ar_log, ArgoEvent("publish", ar_attempt + 1, out))
          /\ ar_pc' = IF after_attempt(ar_attempt, ar_max_retries, out) = "return"
                      THEN after_publish ELSE "sleep"
    /\ UNCHANGED <<ar_entry, ar_max_retries, ar_attempt, ar_code>>
    /\ UNCHANGED <<fs_vars, pp_vars, ex_vars, bd_vars, sc_vars>>

\* publish_to_pubsub, lines 100-102 and 87: the wait, then the next attempt
\* or the end of the loop
PublishSleep ==
    /\ ar_pc = "sleep"
    /\ ar_log' = Append(ar_log, ArgoEvent("sleep", ar_attempt + 1, retry_delay(ar_attempt)))
    /\ ar_attempt' = ar_attempt + 1
    /\ ar_pc' = IF ar_attempt + 1 < ar_max_retries THEN "publish" ELSE after_publish
    /\ UNCHANGED <<ar_entry, ar_max_retries, ar_code>>
    /\ UNCHANGED <<fs_vars, pp_vars, ex_vars, bd_vars, sc_vars>>

\* main, line 157: sys.exit(0)
ArgoExitOk ==
    /\ ar_pc = "exit_ok"
    /\ Exit(0)
    /\ UNCHANGED <<ar_entry, ar_max_retries, ar_attempt, ar_log>>
    /\ UNCHANGED <<fs_vars, pp_vars, ex_vars, bd_vars, sc_vars>>

\* main, lines 159-163: except Exception reports 'failed' and exits with 1
\* (as an exception leaving the handler does)
ArgoHandler ==
    /\ ar_pc = "handler"
    /\ \E post \in PostOutcomes :
          ar_log' = Append(ar_log, update_scan_status("failed", post).event)
    /\ Exit(1)
    /\ UNCHANGED <<ar_entry, ar_max_retries, ar_attempt>>
    /\ UNCHANGED <<fs_vars, pp_vars, ex_vars, bd_vars, sc_vars>>

\* the worker starts, or publish_to_pubsub is called with some max_retries
InitArgo ==
    /\ PostOff
    /\ ExecOff
    /\ BuildOff
    /\ ScanOff
    /\ fs_files = {}
    /\ fs_dirs = {}
    /\ ar_entry \in {"main", "publish"}
    /\ ar_pc = (IF ar_entry = "main" THEN "start" ELSE "publish_client")
    /\ ar_max_retries \in (IF ar_entry = "main" THEN {DefaultMaxRetries} ELSE 0..MaxRetries)
    /\ ar_attempt = 0
    /\ ar_log = <<>>
    /\ ar_code = -1

NextArgo ==
    \/ ArgoReadEnv
    \/ ArgoParseTools
    \/ ArgoReportRunning
    \/ ArgoScanLogic
    \/ ArgoUpload
    \/ ArgoReportComplete
    \/ PublishClient
    \/ PublishAttempt
    \/ PublishSleep
    \/ ArgoExitOk
    \/ ArgoHandler

SpecArgo == InitArgo /\ [][NextArgo]_vars

\* the process keeps running: each call returns or raises (requests.post has
\* timeout=5, future.result timeout=30, time.sleep a finite delay)
SpecArgoFair == SpecArgo /\ WF_vars(NextArgo)


-----------------------------------------------------------------------------
(* Properties of the Argo worker *)

\* the reports of a scan status of S the worker made
ScanStatusReports(S) ==
    {k \in 1..Len(ar_log) : ar_log[k].ev = "scan_status" /\ ar_log[k].arg \in S}

\* an event ev with outcome out lies before position k of the log
Before(k, ev, out) == \E n \in 1..(k - 1) : ar_log[n].ev = ev /\ ar_log[n].out = out

\* recon_complete is reported, and the message published, only after the scan
\* logic returned and the payload was uploaded
CompleteOnlyAfterUpload ==
    \A k \in 1..Len(ar_log) :
        (\/ ar_log[k].ev = "scan_status" /\ ar_log[k].arg = "recon_complete"
         \/ ar_log[k].ev \in {"client", "publish"})
        => Before(k, "scan_logic", "returned") /\ Before(k, "upload", "ok")

\* C26: in main(), once 'recon_running' has been reported, exactly one of the
\* scan statuses 'recon_complete' and 'failed' is reported before the process
\* exits, whether execute_scan_logic raises or the payload upload fails; and
\* 'recon_complete' and the publish come only after the scan logic returned
\* and the upload succeeded.
C26_OneTerminalScanStatus ==
    ar_entry = "main"
    => /\ Cardinality(ScanStatusReports({"recon_complete", "failed"})) <= 1
       /\ (ar_pc = "exited" /\ ScanStatusReports({"recon_running"}) # {})
          => Cardinality(ScanStatusReports({"recon_complete", "failed"})) = 1
       /\ CompleteOnlyAfterUpload

\* no call but the scan logic raised and the upload did not fail
NothingElseFailed ==
    \A k \in 1..Len(ar_log) :
        /\ ar_log[k].ev = "upload" => ar_log[k].out = "ok"
        /\ ar_log[k].ev \in {"scan_status", "client"} => ar_log[k].out # "raise"

\* it is so when the upload succeeds and neither a status report nor the
\* publisher client raises, execute_scan_logic raising or not
C26_OneTerminalScanStatusWhenUploaded ==
    (ar_entry = "main" /\ NothingElseFailed)
    => /\ Cardinality(ScanStatusReports({"recon_complete", "failed"})) <= 1
       /\ (ar_pc = "exited" /\ ScanStatusReports({"recon_running"}) # {})
          => Cardinality(ScanStatusReports({"recon_complete", "failed"})) = 1
       /\ CompleteOnlyAfterUpload

\* the order of recon_complete and the publish holds on every run
C26_CompleteOnlyAfterUpload ==
    ar_entry = "main" => CompleteOnlyAfterUpload


\* the publish attempts made
PublishAttempts == {k \in 1..Len(ar_log) : ar_log[k].ev = "publish"}

\* main or publish_to_pubsub has ended
WorkerEnded == ar_pc \in {"exited", "returned", "raised"}

\* at most max_retries attempts, numbered in order; a successful one is the
\* last thing the loop does; a wait comes right after a failed attempt that is
\* not the last allowed one, and after every such attempt; no exception comes
\* out of the attempts, and main exits with 0 after them
PublishRetriesBounded ==
    /\ Cardinality(PublishAttempts) <= ar_max_retries
    /\ \A k \in PublishAttempts :
          /\ ar_log[k].arg = Cardinality({n \in PublishAttempts : n <= k})
          /\ ar_log[k].out = "ok"
             => \A n \in (k + 1)..Len(ar_log) : ar_log[n].ev \notin {"publish", "sleep"}
          /\ (ar_log[k].out = "failed" /\ ar_log[k].arg < ar_max_retries)
             => IF k < Len(ar_log) THEN ar_log[k + 1].ev = "sleep" ELSE ar_pc = "sleep"
          /\ (ar_log[k].out = "failed" /\ ar_log[k].arg = ar_max_retries)
             => /\ ar_pc # "sleep"
                /\ \A n \in (k + 1)..Len(ar_log) : ar_log[n].ev \notin {"publish", "sleep"}
    /\ \A k \in 1..Len(ar_log) :
          ar_log[k].ev = "sleep"
          => /\ k - 1 \in PublishAttempts
             /\ ar_log[k - 1].out = "failed"
             /\ ar_log[k - 1].arg = ar_log[k].arg
             /\ ar_log[k].arg < ar_max_retries
    /\ PublishAttempts # {}
       => /\ ar_pc \notin {"raised", "handler"}
          /\ ar_pc = "exited" => ar_code = 0

\* C27: publish_to_pubsub terminates whatever the publish attempts give: it
\* makes at most max_retries attempts, stops right after the first successful
\* one, waits between consecutive failed attempts but not after the last one,
\* and returns without raising whether or not an attempt succeeded, so that
\* main still exits with code 0.
C27_PublishTerminates == [](PublishRetriesBounded) /\ <>WorkerEnded

\* main has exited with 0 after every allowed attempt failed
C27_Witness ==
    /\ ar_entry = "main"
    /\ ar_pc = "exited"
    /\ ar_code = 0
    /\ Cardinality(PublishAttempts) = ar_max_retries
    /\ \A k \in PublishAttempts : ar_log[k].out = "failed"
    /\ Cardinality({k \in 1..Len(ar_log) : ar_log[k].ev = "sleep"}) = ar_max_retries - 1

\* publish_to_pubsub has returned right after a successful second attempt
C27_WitnessSuccess ==
    /\ ar_entry = "publish"
    /\ ar_pc = "returned"
    /\ Cardinality(PublishAttempts) = 2
    /\ ar_log[Len(ar_log)] = ArgoEvent("publish", 2, "ok")

=============================================================================
